---- MODULE Spec2Model ----
(***************************************************************************)
(* The live drift-detection path of VIC_SAVE_PUCK: DriftDetector           *)
(* (models/drift.py) fed by GameEvents, and the TrafficLightMonitor        *)
(* (models/traffic_light.py) layered on its reports.                       *)
(*                                                                         *)
(* Python floats that come from dividing two small integers are kept as    *)
(* exact fractions in lowest terms, [n |-> numerator, d |-> denominator].  *)
(* IEEE division is correctly rounded, so for the integers used here two   *)
(* quotients are equal, or ordered, as floats exactly when they are as     *)
(* fractions, and a quotient compares with a decimal literal (0.15, 0.30)  *)
(* the way the fractions do.  float("inf") is the fraction 1/0.            *)
(***************************************************************************)
EXTENDS Integers, Sequences, FiniteSets, TLC

(* ---------------- bounds of the model ---------------- *)
MaxIngest == 5
MaxChecks == 2
MaxUpdates == 4
MaxLiveIngest == 3
MaxLiveChecks == 1
MaxLiveUpdates == 1
MaxTrendIngest == 4
MaxSessionEvents == 5
MaxForecasts == 2
MaxSims == 2
MaxStops == 1
\* len(sorted_windows) of the game a web simulation plays
WebWindows == 1

(* ---------------- config.py ---------------- *)
DRIFT_MIN_SAMPLES == 5
DRIFT_VOLUME_THRESHOLD == [n |-> 3, d |-> 20]
ITEM_MIX_THRESHOLD == [n |-> 3, d |-> 10]
SEVERITY_CRITICAL == [n |-> 2, d |-> 5]
SEVERITY_WARNING == [n |-> 1, d |-> 4]

Canteen == "SOFMC Island Canteen"
Slice == "SOFMC Island Slice"

STAND_SHORT == [s \in {Canteen, Slice} |->
    IF s = Canteen THEN "Island Canteen" ELSE "Island Slice"]

ShortName(stand) == IF stand \in DOMAIN STAND_SHORT THEN STAND_SHORT[stand] ELSE stand

(* ---------------- float arithmetic as exact fractions ---------------- *)
Abs(x) == IF x < 0 THEN -x ELSE x

RECURSIVE GCD(_, _)
GCD(a, b) == IF b = 0 THEN a ELSE GCD(b, a % b)

\* what stands for the ZeroDivisionError a division by 0 raises
ZeroDivisionError == [n |-> 0, d |-> 0]

\* a / b for integers a and b >= 0
Div(a, b) ==
    IF b = 0 THEN ZeroDivisionError
    ELSE LET g == GCD(Abs(a), b)
         IN  [n |-> a \div g, d |-> b \div g]

Zero == [n |-> 0, d |-> 1]
One == [n |-> 1, d |-> 1]
Inf == [n |-> 1, d |-> 0]

FAbs(f) == [n |-> Abs(f.n), d |-> f.d]
FNeg(f) == [n |-> -f.n, d |-> f.d]
FLt(f, g) == f.n * g.d < g.n * f.d
FLe(f, g) == ~FLt(g, f)
FGe(f, g) == ~FLt(f, g)
FGt(f, g) == FLt(g, f)
FAdd(f, g) == IF f.d = 0 THEN f ELSE IF g.d = 0 THEN g
              ELSE Div(f.n * g.d + g.n * f.d, f.d * g.d)
FSub(f, g) == FAdd(f, FNeg(g))

(* ---------------- dict helpers ---------------- *)
\* d.get(k, 0)
Get(d, k) == IF k \in DOMAIN d THEN d[k] ELSE 0

\* the entry overwritten by the quantity
Accumulate_Overwrite(d, k, qty) ==
    [x \in DOMAIN d \cup {k} |-> IF x = k THEN qty ELSE d[x]]

\* d[k] = d.get(k, 0) + qty
Accumulate(d, k, qty) ==
    [x \in DOMAIN d \cup {k} |-> IF x = k THEN Get(d, k) + qty ELSE d[x]]

EmptyDict == [x \in {} |-> 0]

RECURSIVE SumOver(_, _)
\* sum(f[k] for k in S)
SumOver(f, S) ==
    IF S = {} THEN 0
    ELSE LET k == CHOOSE x \in S : TRUE
         IN  f[k] + SumOver(f, S \ {k})

\* the orders in which a Python set of strings can be iterated
Orders(S) ==
    {s \in [1..Cardinality(S) -> S] : \A i, j \in 1..Cardinality(S) : s[i] = s[j] => i = j}

(* ---------------- the forecast handed to the detector ---------------- *)
Windows == {0, 10}

\* rows of forecast["stand_forecast"]: window 0 totals 100, window 10 totals 0
StandForecastRows == <<
    [stand |-> Canteen, time_window |-> 0, expected_qty |-> 20],
    [stand |-> Slice, time_window |-> 0, expected_qty |-> 80],
    [stand |-> Canteen, time_window |-> 10, expected_qty |-> 0] >>

\* rows of forecast["item_forecast"]
ItemForecastRows == <<
    [item |-> "Hot Dog", time_window |-> 0, expected_qty |-> 10],
    [item |-> "Draft Beer", time_window |-> 0, expected_qty |-> 90] >>

RECURSIVE FcStandLookup(_)
FcStandLookup(rows) ==
    IF rows = <<>> THEN EmptyDict
    ELSE LET r == rows[Len(rows)]
             rest == FcStandLookup(SubSeq(rows, 1, Len(rows) - 1))
             key == <<r.stand, r.time_window>>
         IN  [x \in DOMAIN rest \cup {key} |-> IF x = key THEN r.expected_qty ELSE rest[x]]

RECURSIVE FcItemLookup(_)
FcItemLookup(rows) ==
    IF rows = <<>> THEN EmptyDict
    ELSE LET r == rows[Len(rows)]
             rest == FcItemLookup(SubSeq(rows, 1, Len(rows) - 1))
             key == <<r.item, r.time_window>>
         IN  [x \in DOMAIN rest \cup {key} |-> IF x = key THEN r.expected_qty ELSE rest[x]]

Stands == {Canteen, Slice}
Items == {"Hot Dog", "Draft Beer"}

(* ---------------- the events a game can stream ---------------- *)
GameEvent(stand, item, category, qty, tw) ==
    [stand |-> stand, item |-> item, category |-> category, qty |-> qty, time_window |-> tw]

Events == {
    GameEvent(Canteen, "Hot Dog", "Food", 7, 0),
    GameEvent(Canteen, "Hot Dog", "Food", 3, 0),
    GameEvent(Canteen, "Draft Beer", "Beer", 10, 0),
    \* an item the forecast has no row for
    GameEvent(Canteen, "Pretzel", "Food", 17, 0),
    GameEvent(Slice, "Draft Beer", "Beer", 100, 0),
    GameEvent(Slice, "Draft Beer", "Beer", 3, 10) }

VARIABLES
    fc_stand, fc_item,
    actual_by_stand_window, actual_by_item_window, actual_by_category_window,
    actual_by_stand_item_window, actual_by_window, event_count_by_window,
    cumulative_actual, cumulative_forecast, drift_history,
    tl_history, stand_drift_history,
    lastCall, ret,
    \* simulation_websocket: the simulator thread, the handler coroutine, the stop message
    thread, handler, stop_requested, skip_ai,
    \* analyze_drift: how the last client.messages.create ended
    api,
    \* generate_forecast: the profiles, the game asked for and the forecast returned,
    \* the call before it, and the correction factor applied to the forecast
    profiles, game, forecast, game_prev, forecast_prev, correction,
    \* web/events.py: the simulations started, the one _active_sim names, and the
    \* events emitted on the socket
    sims, active_sim, channel,
    \* run_backtest: the tables loaded, the correction model, the place in the loop over
    \* the game dates, the training tables of each pass and the results
    dataset, correction_model, position, training, results

actuals == <<actual_by_stand_window, actual_by_item_window, actual_by_category_window,
             actual_by_stand_item_window, actual_by_window, event_count_by_window,
             cumulative_actual>>
forecasts == <<fc_stand, fc_item>>
monitor == <<tl_history, stand_drift_history>>
session == <<thread, handler, stop_requested, skip_ai, api>>
forecasting == <<profiles, game, forecast, game_prev, forecast_prev, correction>>
web == <<sims, active_sim, channel>>
backtesting == <<dataset, correction_model, position, training, results>>
vars == <<forecasts, actuals, cumulative_forecast, drift_history, monitor, lastCall, ret,
          session, forecasting, web, backtesting>>

\* current_window = None
None == -1

\* no simulation started: _active_sim = None
WebIdle ==
    /\ sims = << >>
    /\ active_sim = None
    /\ channel = << >>

\* no table loaded
NoDataset == [games |-> << >>, merged |-> {}]

\* run_backtest not called
BacktestIdle ==
    /\ dataset = NoDataset
    /\ correction_model = FALSE
    /\ position = 1
    /\ training = << >>
    /\ results = << >>

\* the simulator thread before thread.start()
ThreadInit == [pc |-> "run", event |-> << >>, current_window |-> None,
               notify |-> None, final |-> FALSE]

Call(op, tw) == [op |-> op, time_window |-> tw]

(* ---------------- models/forecast.py ---------------- *)
\* f * g
FMul(f, g) == Div(f.n * g.n, f.d * g.d)

\* 1.0 / f for f > 0
FInv(f) == [n |-> f.d, d |-> f.n]

FMax(f, g) == IF FLt(f, g) THEN g ELSE f
FMin(f, g) == IF FLt(f, g) THEN f ELSE g

\* numpy round(0): to the nearest integer, a half to the even one
Round0(f) ==
    LET q == f.n \div f.d
        r == f.n % f.d
    IN  IF 2 * r > f.d \/ (2 * r = f.d /\ q % 2 = 1) THEN q + 1 ELSE q

\* numpy round(1)
Round1(f) == Div(Round0(FMul(f, [n |-> 10, d |-> 1])), 10)

\* round(x, 3)
Round3(f) == Div(Round0(FMul(f, [n |-> 1000, d |-> 1])), 1000)

FromInt(i) == [n |-> i, d |-> 1]

\* config.ITEM_PERISHABILITY, for the items of the model
ITEM_PERISHABILITY ==
    [i \in {"Chips", "Hot Dog", "Hot Drinks", "Draught Beer", "Fries"} |->
        CASE i = "Chips" -> "shelf_stable"
          [] i = "Fries" -> "short_life"
          [] OTHER -> "medium_hold"]

\* config.PREP_TARGET
PREP_TARGET ==
    [t \in {"shelf_stable", "medium_hold", "short_life"} |->
        CASE t = "shelf_stable" -> [n |-> 19, d |-> 20]
          [] t = "medium_hold" -> [n |-> 17, d |-> 20]
          [] t = "short_life" -> [n |-> 3, d |-> 4]]

derive_archetype(attendance, puck_drop_hour, is_playoff, is_promo, temp_mean, day_of_week) ==
    IF is_playoff THEN "beer_crowd"
    ELSE IF attendance >= 3500 /\ puck_drop_hour >= 19 /\ day_of_week \in {"Fri", "Sat"}
    THEN "beer_crowd"
    ELSE IF puck_drop_hour < 17 THEN "family"
    ELSE IF temp_mean < 3 /\ day_of_week \in {"Sun", "Sat"} THEN "family"
    ELSE "mixed"

(* ---- the historical profiles (data/profiles.py) ---- *)
\* a row of a curve table; avg_qty is a float
Curve(archetype, stand, item, tw, avg_qty) ==
    [archetype |-> archetype, stand |-> stand, Item |-> item, time_window |-> tw,
     avg_qty |-> FromInt(avg_qty)]

\* stand x item curves of the games played: a beer crowd and a mixed crowd have been
\* seen, a family crowd never; one window lies after the range a forecast keeps
StandItemCurves == {
    Curve("mixed", Canteen, "Draught Beer", 0, 40),
    Curve("mixed", Canteen, "Hot Dog", 0, 20),
    Curve("mixed", Canteen, "Fries", 0, 10),
    Curve("mixed", Slice, "Draught Beer", 0, 60),
    Curve("mixed", Slice, "Chips", 10, 8),
    Curve("mixed", Slice, "Hot Drinks", 10, 12),
    Curve("mixed", Canteen, "Hot Dog", 130, 5),
    Curve("beer_crowd", Canteen, "Draught Beer", 0, 80),
    Curve("beer_crowd", Canteen, "Hot Dog", 0, 10),
    Curve("beer_crowd", Slice, "Draught Beer", 0, 100) }

RECURSIVE SumAvgQty(_)
SumAvgQty(rows) ==
    IF rows = {} THEN Zero
    ELSE LET r == CHOOSE x \in rows : TRUE IN FAdd(r.avg_qty, SumAvgQty(rows \ {r}))

\* merged.groupby(["archetype", "stand", "time_window"]) of the same transactions
StandCurvesOf(si) ==
    {[archetype |-> r.archetype, stand |-> r.stand, time_window |-> r.time_window,
      avg_qty |-> SumAvgQty({x \in si : /\ x.archetype = r.archetype
                                        /\ x.stand = r.stand
                                        /\ x.time_window = r.time_window})] : r \in si}

\* merged.groupby(["archetype", "Item", "time_window"])
ItemCurvesOf(si) ==
    {[archetype |-> r.archetype, Item |-> r.Item, time_window |-> r.time_window,
      avg_qty |-> SumAvgQty({x \in si : /\ x.archetype = r.archetype
                                        /\ x.Item = r.Item
                                        /\ x.time_window = r.time_window})] : r \in si}

\* stand_item_curves = None
NoCurves == {[archetype |-> "None"]}

Profiles(games, si, granular) ==
    [games |-> games, stand_curves |-> StandCurvesOf(si), item_curves |-> ItemCurvesOf(si),
     stand_item_curves |-> IF granular THEN si ELSE NoCurves]

HistoricalGame(archetype, attendance) == [archetype |-> archetype, attendance |-> attendance]

\* the profiles a forecast is asked from: the full history; the same without the
\* granular curves; a history whose attendance was never recorded (0); a history of
\* one beer-crowd game, with no curve of a mixed crowd
FullProfiles ==
    Profiles(<< HistoricalGame("beer_crowd", 4000), HistoricalGame("mixed", 2000),
                HistoricalGame("mixed", 3000) >>, StandItemCurves, TRUE)

ProfileSets == {
    FullProfiles,
    Profiles(<< HistoricalGame("beer_crowd", 4000), HistoricalGame("mixed", 2000),
                HistoricalGame("mixed", 3000) >>, StandItemCurves, FALSE),
    Profiles(<< HistoricalGame("mixed", 0), HistoricalGame("beer_crowd", 0) >>,
             StandItemCurves, TRUE),
    Profiles(<< HistoricalGame("beer_crowd", 4000) >>,
             {r \in StandItemCurves : r.archetype = "beer_crowd"}, TRUE) }

(* ---- the games a forecast is asked for ---- *)
GameContext(attendance, puck_drop_hour, is_playoff, is_promo, promo_type, temp_mean, day_of_week) ==
    [attendance |-> attendance, puck_drop_hour |-> puck_drop_hour,
     is_playoff |-> is_playoff, is_promo |-> is_promo, promo_type |-> promo_type,
     temp_mean |-> temp_mean, day_of_week |-> day_of_week]

Attendances == {1000, 2000, 4000}

GameContexts ==
    {GameContext(a, h, po, pr, IF pr THEN "Dollar Dog Night" ELSE "", t, day) :
        a \in Attendances, h \in {14, 19}, po \in BOOLEAN, pr \in BOOLEAN,
        t \in {0, 8, 18}, day \in {"Fri", "Sun"}}

(* ---- generate_forecast ---- *)
Archetype(g) ==
    derive_archetype(g.attendance, g.puck_drop_hour, g.is_playoff, g.is_promo,
                     g.temp_mean, g.day_of_week)

\* games_df[games_df["archetype"] == archetype], all the games if that is empty
ArchGames(g, p) ==
    LET own == SelectSeq(p.games, LAMBDA x : x.archetype = Archetype(g))
    IN  IF own = << >> THEN p.games ELSE own

RECURSIVE SumAttendance(_)
SumAttendance(games) ==
    IF games = << >> THEN 0 ELSE Head(games).attendance + SumAttendance(Tail(games))

\* the mean of no value
NaN == [n |-> 0, d |-> 0]

\* arch_games["attendance"].mean()
RefAttendance(g, p) ==
    IF ArchGames(g, p) = << >> THEN NaN
    ELSE Div(SumAttendance(ArchGames(g, p)), Len(ArchGames(g, p)))

\* the attendance taken for the reference whatever the game
Scale_OfReference(g, p) == One

\* attendance / ref_attendance if ref_attendance > 0 else 1.0
Scale(g, p) ==
    LET ref_attendance == RefAttendance(g, p)
    IN  IF ref_attendance # NaN /\ FGt(ref_attendance, Zero)
        THEN FMul(FromInt(g.attendance), FInv(ref_attendance))
        ELSE One

\* the curves of the archetype alone, none if it was never seen
CurvesFor_NoFallback(curves, archetype) == {r \in curves : r.archetype = archetype}

\* curves[curves["archetype"] == archetype], those of "mixed" if that is empty
CurvesFor(curves, archetype) ==
    LET own == {r \in curves : r.archetype = archetype}
    IN  IF own = {} THEN {r \in curves : r.archetype = "mixed"} ELSE own

\* max(0.7, min(1.5, 1.0 + (temp_mean - 8.0) * 0.03))
BeerFactor(g) ==
    FMax([n |-> 7, d |-> 10],
         FMin([n |-> 3, d |-> 2],
              FAdd(One, FMul(FromInt(g.temp_mean - 8), [n |-> 3, d |-> 100]))))

\* "dog" in promo_type.lower()
IsDogPromo(g) == g.is_promo /\ g.promo_type = "Dollar Dog Night"

\* the item-level adjustments: temperature, promo override, playoff boost
Adjusted(qty, item, g) ==
    LET beer == IF item \in {"Draught Beer", "Cans of Beer"}
                THEN FMul(qty, BeerFactor(g)) ELSE qty
        hot == IF item \in {"Hot Drinks", "Coffee & Baileys"}
               THEN FMul(beer, FInv(BeerFactor(g))) ELSE beer
        promo == IF IsDogPromo(g) /\ item \in {"Hot Dog", "Dogs"}
                 THEN FMul(hot, [n |-> 5, d |-> 2]) ELSE hot
    IN  IF g.is_playoff THEN FMul(promo, [n |-> 23, d |-> 20]) ELSE promo

\* (avg_qty * scale).round(1)
Scaled(avg_qty, g, p) == Round1(FMul(avg_qty, Scale(g, p)))

\* the windows a forecast keeps
InRange(tw) == tw >= -90 /\ tw <= 120

Perishability(item) ==
    IF item \in DOMAIN ITEM_PERISHABILITY THEN ITEM_PERISHABILITY[item] ELSE "medium_hold"

\* _apply_prep_target: (expected_qty * prep_target).round(0).astype(int)
PrepQty(expected_qty, item) ==
    Round0(FMul(FromInt(expected_qty), PREP_TARGET[Perishability(item)]))

\* sc: the scale alone, then rounded
StandForecast(g, p) ==
    {[stand |-> r.stand, time_window |-> r.time_window,
      expected_qty |-> Round0(Scaled(r.avg_qty, g, p))] :
        r \in {x \in CurvesFor(p.stand_curves, Archetype(g)) : InRange(x.time_window)}}

ItemForecast(g, p) ==
    {LET expected_qty == Round0(Adjusted(Scaled(r.avg_qty, g, p), r.Item, g))
     IN  [item |-> r.Item, time_window |-> r.time_window, expected_qty |-> expected_qty,
          prep_qty |-> PrepQty(expected_qty, r.Item), perishability |-> Perishability(r.Item)] :
        r \in {x \in CurvesFor(p.item_curves, Archetype(g)) : InRange(x.time_window)}}

StandItemForecast(g, p) ==
    IF p.stand_item_curves = NoCurves THEN NoCurves
    ELSE {LET expected_qty == Round0(Adjusted(Scaled(r.avg_qty, g, p), r.Item, g))
          IN  [stand |-> r.stand, item |-> r.Item, time_window |-> r.time_window,
               expected_qty |-> expected_qty, prep_qty |-> PrepQty(expected_qty, r.Item),
               perishability |-> Perishability(r.Item)] :
             r \in {x \in CurvesFor(p.stand_item_curves, Archetype(g)) :
                       InRange(x.time_window)}}

\* the dict generate_forecast returns
Forecast(g, p) ==
    [stand_forecast |-> StandForecast(g, p),
     item_forecast |-> ItemForecast(g, p),
     stand_item_forecast |-> StandItemForecast(g, p),
     archetype |-> Archetype(g),
     attendance |-> g.attendance,
     scale_factor |-> Round3(Scale(g, p)),
     beer_factor |-> Round3(BeerFactor(g))]

\* no forecast asked yet
NoForecast == [archetype |-> "None"]
NoGame == [attendance |-> None]

generate_forecast(g) ==
    /\ game' = g
    /\ forecast' = Forecast(g, profiles)
    /\ game_prev' = game
    /\ forecast_prev' = forecast
    /\ correction' = One
    /\ UNCHANGED profiles

(* ---- validation/backtest.py: the correction factor on a forecast ---- *)
\* get_correction_factor: np.clip(raw, 0.5, 1.5)
CorrectionFactors == {[n |-> 1, d |-> 2], [n |-> 9, d |-> 10], [n |-> 3, d |-> 2]}

TimesCf(qty, cf) == Round0(FMul(FromInt(qty), cf))

\* the expected quantities corrected, the prep quantities left as they were
Corrected_ExpectedOnly(fc, cf) ==
    [fc EXCEPT
        !.item_forecast =
            {[r EXCEPT !.expected_qty = TimesCf(r.expected_qty, cf)] : r \in fc.item_forecast},
        !.stand_forecast =
            {[r EXCEPT !.expected_qty = TimesCf(r.expected_qty, cf)] : r \in fc.stand_forecast}]

\* run_backtest: expected_qty and prep_qty of the item forecast and expected_qty of
\* the stand forecast times cf, rounded
Corrected(fc, cf) ==
    [fc EXCEPT
        !.item_forecast =
            {[r EXCEPT !.expected_qty = TimesCf(r.expected_qty, cf),
                       !.prep_qty = TimesCf(r.prep_qty, cf)] : r \in fc.item_forecast},
        !.stand_forecast =
            {[r EXCEPT !.expected_qty = TimesCf(r.expected_qty, cf)] : r \in fc.stand_forecast}]

apply_correction(cf) ==
    /\ forecast # NoForecast
    /\ correction = One
    /\ forecast' = Corrected(forecast, cf)
    /\ correction' = cf
    /\ UNCHANGED <<profiles, game, game_prev, forecast_prev>>

CorrectionStep == \E cf \in CorrectionFactors : apply_correction(cf)

\* the profiles loaded, no forecast asked yet
ForecastIdle ==
    /\ profiles = FullProfiles
    /\ game = NoGame
    /\ forecast = NoForecast
    /\ game_prev = NoGame
    /\ forecast_prev = NoForecast
    /\ correction = One

ForecastInit ==
    /\ profiles \in ProfileSets
    /\ game = NoGame
    /\ forecast = NoForecast
    /\ game_prev = NoGame
    /\ forecast_prev = NoForecast
    /\ correction = One

\* DriftDetector.__init__ followed by TrafficLightMonitor.__init__
DetectorInit ==
    /\ fc_stand = FcStandLookup(StandForecastRows)
    /\ fc_item = FcItemLookup(ItemForecastRows)
    /\ actual_by_stand_window = EmptyDict
    /\ actual_by_item_window = EmptyDict
    /\ actual_by_category_window = EmptyDict
    /\ actual_by_stand_item_window = EmptyDict
    /\ actual_by_window = EmptyDict
    /\ event_count_by_window = EmptyDict
    /\ cumulative_actual = 0
    /\ cumulative_forecast = 0
    /\ drift_history = <<>>
    /\ tl_history = <<>>
    /\ stand_drift_history = EmptyDict
    /\ lastCall = Call("init", 0)
    /\ ret = [kind |-> "None"]

Init ==
    /\ DetectorInit
    /\ thread = ThreadInit
    /\ handler = "wait"
    /\ stop_requested = FALSE
    /\ skip_ai = FALSE
    /\ api = "none"
    /\ ForecastIdle
    /\ WebIdle
    /\ BacktestIdle

EventsIngested == SumOver(event_count_by_window, DOMAIN event_count_by_window)

\* the running total overwritten by the event's quantity
CumulativeActualAfter_Overwrite(event) == event.qty

\* self._cumulative_actual += qty
CumulativeActualAfter(event) == cumulative_actual + event.qty

\* DriftDetector.ingest_event
ingest_event(event) ==
    LET tw == event.time_window
    IN  /\ EventsIngested < MaxIngest
        /\ actual_by_stand_window' =
               Accumulate(actual_by_stand_window, <<event.stand, tw>>, event.qty)
        /\ actual_by_item_window' =
               Accumulate(actual_by_item_window, <<event.item, tw>>, event.qty)
        /\ actual_by_category_window' =
               Accumulate(actual_by_category_window, <<event.category, tw>>, event.qty)
        /\ actual_by_stand_item_window' =
               Accumulate(actual_by_stand_item_window, <<event.stand, event.item, tw>>, event.qty)
        /\ actual_by_window' = Accumulate(actual_by_window, tw, event.qty)
        /\ event_count_by_window' = Accumulate(event_count_by_window, tw, 1)
        /\ cumulative_actual' = CumulativeActualAfter(event)
        /\ lastCall' = Call("ingest_event", tw)
        /\ ret' = [kind |-> "None"]
        /\ UNCHANGED <<forecasts, cumulative_forecast, drift_history, monitor>>

IngestStep == \E e \in Events : ingest_event(e)

(* ---------------- DriftSignal / DriftReport ---------------- *)
DriftSignal(drift_type, scope, magnitude, direction, tw, actual, fc) ==
    [drift_type |-> drift_type, scope |-> scope, magnitude |-> magnitude,
     direction |-> direction, time_window |-> tw,
     \* the numbers the detail text is formatted from
     detail |-> <<actual, fc>>]

\* DriftSignal.severity
Severity(signal) ==
    LET abs_mag == FAbs(signal.magnitude)
    IN  IF FGe(abs_mag, SEVERITY_CRITICAL) THEN "critical"
        ELSE IF FGe(abs_mag, SEVERITY_WARNING) THEN "warning"
        ELSE "info"

\* significant only from a critical signal on
HasSignificantDrift_CriticalOnly(report) ==
    \E i \in 1..Len(report.signals) : Severity(report.signals[i]) = "critical"

\* DriftReport.has_significant_drift
HasSignificantDrift(report) ==
    \E i \in 1..Len(report.signals) : Severity(report.signals[i]) \in {"warning", "critical"}

\* "above" if drift > 0 else "below"
Direction(drift) == IF FGt(drift, Zero) THEN "above" ELSE "below"

(* ---------------- DriftDetector.check_drift ---------------- *)
ActualTotal(tw) == Get(actual_by_window, tw)

FcTotal(tw) == SumOver(fc_stand, {k \in DOMAIN fc_stand : k[2] = tw})

\* the gate without its count of the window's events
OverallGate_NoSampleTest(tw) == FcTotal(tw) > 0

\* the gate without its positive-forecast test
OverallGate_NoForecastTest(tw) ==
    Get(event_count_by_window, tw) >= DRIFT_MIN_SAMPLES

\* the gate counting units sold instead of transactions
OverallGate_ByQuantity(tw) ==
    FcTotal(tw) > 0 /\ ActualTotal(tw) >= DRIFT_MIN_SAMPLES

\* the guard of the overall volume block
OverallGate(tw) ==
    FcTotal(tw) > 0 /\ Get(event_count_by_window, tw) >= DRIFT_MIN_SAMPLES

\* the deviation taken relative to the actual total
VolDrift_OverActual(tw) == Div(ActualTotal(tw) - FcTotal(tw), ActualTotal(tw))

VolDrift(tw) == Div(ActualTotal(tw) - FcTotal(tw), FcTotal(tw))

OverallVolumeDrift(tw) == IF OverallGate(tw) THEN VolDrift(tw) ELSE Zero

OverallSignals(tw) ==
    IF OverallGate(tw) /\ FGe(FAbs(VolDrift(tw)), DRIFT_VOLUME_THRESHOLD)
    THEN << DriftSignal("volume", "overall", VolDrift(tw), Direction(VolDrift(tw)), tw,
                        ActualTotal(tw), FcTotal(tw)) >>
    ELSE << >>

\* the stands taken from the forecast of the window
StandsThisWindow_Forecast(tw) == {k[1] : k \in {x \in DOMAIN fc_stand : x[2] = tw}}

StandsThisWindow(tw) == {k[1] : k \in {x \in DOMAIN actual_by_stand_window : x[2] = tw}}

StandActual(stand, tw) == Get(actual_by_stand_window, <<stand, tw>>)
StandFc(stand, tw) == Get(fc_stand, <<stand, tw>>)

\* whether the stand loop writes report.stand_drifts[stand]
StandHasEntry(stand, tw) ==
    StandFc(stand, tw) > 0 \/ StandActual(stand, tw) > DRIFT_MIN_SAMPLES

\* the deviation with its sign reversed: (forecast - actual) / forecast
StandDrift_Reversed(stand, tw) ==
    IF StandFc(stand, tw) > 0
    THEN Div(StandFc(stand, tw) - StandActual(stand, tw), StandFc(stand, tw))
    ELSE Inf

StandDrift(stand, tw) ==
    IF StandFc(stand, tw) > 0
    THEN Div(StandActual(stand, tw) - StandFc(stand, tw), StandFc(stand, tw))
    ELSE Inf

\* the threshold taken as exclusive
StandSignalEmitted_Strict(drift) == FGt(FAbs(drift), DRIFT_VOLUME_THRESHOLD)

\* the signal test of a stand with a positive forecast
StandSignalEmitted(drift) == FGe(FAbs(drift), DRIFT_VOLUME_THRESHOLD)

\* the signals one iteration of the stand loop appends
StandSignalsOf(stand, tw) ==
    IF StandFc(stand, tw) > 0
    THEN IF StandSignalEmitted(StandDrift(stand, tw))
         THEN << DriftSignal("volume", ShortName(stand), StandDrift(stand, tw),
                             Direction(StandDrift(stand, tw)), tw,
                             StandActual(stand, tw), StandFc(stand, tw)) >>
         ELSE << >>
    ELSE IF StandActual(stand, tw) > DRIFT_MIN_SAMPLES
         THEN << DriftSignal("volume", ShortName(stand), One, "above", tw,
                             StandActual(stand, tw), StandFc(stand, tw)) >>
         ELSE << >>

RECURSIVE StandSignals(_, _)
StandSignals(order, tw) ==
    IF order = << >> THEN << >>
    ELSE StandSignalsOf(order[1], tw) \o StandSignals(Tail(order), tw)

StandDrifts(tw) ==
    [s \in {x \in StandsThisWindow(tw) : StandHasEntry(x, tw)} |-> StandDrift(s, tw)]

ItemsThisWindow(tw) == {k[1] : k \in {x \in DOMAIN actual_by_item_window : x[2] = tw}}

ItemActual(item, tw) == Get(actual_by_item_window, <<item, tw>>)
ItemFc(item, tw) == Get(fc_item, <<item, tw>>)

ItemDrift(item, tw) == Div(ItemActual(item, tw) - ItemFc(item, tw), ItemFc(item, tw))

\* the signal test of an item with a positive forecast
ItemSignalEmitted(drift) == FGe(FAbs(drift), ITEM_MIX_THRESHOLD)

ItemSignalsOf(item, tw) ==
    IF ItemFc(item, tw) > 0 /\ ItemSignalEmitted(ItemDrift(item, tw))
    THEN << DriftSignal("mix", item, ItemDrift(item, tw), Direction(ItemDrift(item, tw)), tw,
                        ItemActual(item, tw), ItemFc(item, tw)) >>
    ELSE << >>

RECURSIVE ItemSignals(_, _)
ItemSignals(order, tw) ==
    IF order = << >> THEN << >>
    ELSE ItemSignalsOf(order[1], tw) \o ItemSignals(Tail(order), tw)

ItemDrifts(tw) ==
    [i \in {x \in ItemsThisWindow(tw) : ItemFc(x, tw) > 0} |-> ItemDrift(i, tw)]

CatsThisWindow(tw) == {k[1] : k \in {x \in DOMAIN actual_by_category_window : x[2] = tw}}

TotalActualCat(tw) ==
    SumOver(actual_by_category_window, {<<c, tw>> : c \in CatsThisWindow(tw)})

CategoryMixDrift(tw) ==
    IF TotalActualCat(tw) > DRIFT_MIN_SAMPLES
    THEN [c \in CatsThisWindow(tw) |->
             Div(Get(actual_by_category_window, <<c, tw>>), TotalActualCat(tw))]
    ELSE [c \in {} |-> Zero]

\* the sort key without abs(): -s.magnitude
InsertSignal_Signed(sorted, x) ==
    LET k == Cardinality({i \in 1..Len(sorted) : FGe(sorted[i].magnitude, x.magnitude)})
    IN  SubSeq(sorted, 1, k) \o << x >> \o SubSeq(sorted, k + 1, Len(sorted))

\* where sorted() puts x in an already sorted list: after every element whose
\* key -abs(magnitude) is not greater than x's (the sort is stable)
InsertSignal(sorted, x) ==
    LET k == Cardinality({i \in 1..Len(sorted) :
                 FGe(FAbs(sorted[i].magnitude), FAbs(x.magnitude))})
    IN  SubSeq(sorted, 1, k) \o << x >> \o SubSeq(sorted, k + 1, Len(sorted))

RECURSIVE SortSignals(_)
\* sorted(signals, key=lambda s: -abs(s.magnitude))
SortSignals(signals) ==
    IF signals = << >> THEN << >>
    ELSE InsertSignal(SortSignals(SubSeq(signals, 1, Len(signals) - 1)), signals[Len(signals)])

\* the DriftReport check_drift builds, the sets iterated in the given orders
DriftReport(tw, stand_order, item_order) ==
    [time_window |-> tw,
     signals |-> SortSignals(OverallSignals(tw) \o StandSignals(stand_order, tw)
                             \o ItemSignals(item_order, tw)),
     overall_volume_drift |-> OverallVolumeDrift(tw),
     stand_drifts |-> StandDrifts(tw),
     item_drifts |-> ItemDrifts(tw),
     category_mix_drift |-> CategoryMixDrift(tw)]

\* the checked window's running sums cleared once it is reported
check_drift_ResetsWindow(tw) ==
    /\ Len(drift_history) < MaxChecks
    /\ lastCall' = Call("check_drift", tw)
    /\ \E stand_order \in Orders(StandsThisWindow(tw)),
          item_order \in Orders(ItemsThisWindow(tw)) :
           LET report == DriftReport(tw, stand_order, item_order)
           IN  /\ cumulative_forecast' = cumulative_forecast + FcTotal(tw)
               /\ drift_history' = Append(drift_history, report)
               /\ ret' = [kind |-> "DriftReport", value |-> report]
    /\ actual_by_window' = [w \in DOMAIN actual_by_window \ {tw} |-> actual_by_window[w]]
    /\ event_count_by_window' =
           [w \in DOMAIN event_count_by_window \ {tw} |-> event_count_by_window[w]]
    /\ UNCHANGED <<forecasts, actual_by_stand_window, actual_by_item_window,
                   actual_by_category_window, actual_by_stand_item_window,
                   cumulative_actual, monitor>>

\* self._cumulative_forecast += fc_total
CumulativeForecastAfter(tw) == cumulative_forecast + FcTotal(tw)

\* one report kept per window: a repeated window's report replaces the earlier one
HistoryAfter_OnePerWindow(report) ==
    IF \E i \in 1..Len(drift_history) : drift_history[i].time_window = report.time_window
    THEN [i \in 1..Len(drift_history) |->
             IF drift_history[i].time_window = report.time_window
             THEN report ELSE drift_history[i]]
    ELSE Append(drift_history, report)

\* self._drift_history.append(report)
HistoryAfter(report) == Append(drift_history, report)

\* DriftDetector.check_drift; a division by zero in the overall block would leave
\* the call by its exception before anything is written
check_drift(tw) ==
    /\ Len(drift_history) < MaxChecks
    /\ lastCall' = Call("check_drift", tw)
    /\ IF OverallVolumeDrift(tw) = ZeroDivisionError
       THEN /\ ret' = [kind |-> "ZeroDivisionError"]
            /\ UNCHANGED <<cumulative_forecast, drift_history>>
       ELSE \E stand_order \in Orders(StandsThisWindow(tw)),
               item_order \in Orders(ItemsThisWindow(tw)) :
                LET report == DriftReport(tw, stand_order, item_order)
                IN  /\ cumulative_forecast' = CumulativeForecastAfter(tw)
                    /\ drift_history' = HistoryAfter(report)
                    /\ ret' = [kind |-> "DriftReport", value |-> report]
    /\ UNCHANGED <<forecasts, actuals, monitor>>

CheckDriftStep == \E tw \in Windows : check_drift(tw)

(* ---------------- DriftDetector.cumulative_drift / summary ---------------- *)
CumulativeDrift ==
    IF cumulative_forecast = 0 THEN Zero
    ELSE Div(cumulative_actual - cumulative_forecast, cumulative_forecast)

cumulative_drift ==
    /\ lastCall' = Call("cumulative_drift", 0)
    /\ ret' = [kind |-> "float", value |-> CumulativeDrift]
    /\ UNCHANGED <<forecasts, actuals, cumulative_forecast, drift_history, monitor>>

RECURSIVE AllSignals(_)
\* [s for r in self._drift_history for s in r.signals]
AllSignals(history) ==
    IF history = << >> THEN << >>
    ELSE AllSignals(SubSeq(history, 1, Len(history) - 1)) \o history[Len(history)].signals

CountSeverity(signals, sev) == Cardinality({i \in 1..Len(signals) : Severity(signals[i]) = sev})

\* f"{x:+.1%}": x in tenths of a percent, rounded half to even
PercentTenths(x) ==
    LET num == 1000 * Abs(x.n)
        q == num \div x.d
        r == num % x.d
        up == 2 * r > x.d \/ (2 * r = x.d /\ q % 2 = 1)
        mag == IF up THEN q + 1 ELSE q
    IN  IF x.n < 0 THEN -mag ELSE mag

Summary ==
    [total_windows |-> Len(drift_history),
     windows_with_drift |->
         Cardinality({i \in 1..Len(drift_history) : HasSignificantDrift(drift_history[i])}),
     total_signals |-> Len(AllSignals(drift_history)),
     critical_signals |-> CountSeverity(AllSignals(drift_history), "critical"),
     warning_signals |-> CountSeverity(AllSignals(drift_history), "warning"),
     cumulative_drift |-> PercentTenths(CumulativeDrift),
     total_actual |-> cumulative_actual,
     total_forecast |-> cumulative_forecast]

summary ==
    /\ lastCall' = Call("summary", 0)
    /\ ret' = [kind |-> "dict", value |-> Summary]
    /\ UNCHANGED <<forecasts, actuals, cumulative_forecast, drift_history, monitor>>

(* ---------------- traffic_light.py ---------------- *)
GREEN_THRESHOLD == [n |-> 3, d |-> 20]
YELLOW_THRESHOLD == [n |-> 3, d |-> 10]
TREND_MARGIN == [n |-> 1, d |-> 20]

\* the tiers with their upper limits excluded
classify_status_Strict(drift) ==
    LET abs_drift == FAbs(drift)
    IN  IF FLt(abs_drift, GREEN_THRESHOLD) THEN "green"
        ELSE IF FLt(abs_drift, YELLOW_THRESHOLD) THEN "yellow"
        ELSE "red"

\* classify_status
classify_status(drift) ==
    LET abs_drift == FAbs(drift)
    IN  IF FLe(abs_drift, GREEN_THRESHOLD) THEN "green"
        ELSE IF FLe(abs_drift, YELLOW_THRESHOLD) THEN "yellow"
        ELSE "red"

\* history[-3:] if len(history) >= 3 else history
Recent(history) ==
    IF Len(history) >= 3 THEN SubSeq(history, Len(history) - 2, Len(history)) ELSE history

\* the two quotients lie exactly 0.05 apart: recent_abs[0] - 0.05 (or + 0.05) is then
\* a rounded double next to recent_abs[-1], and the rounding decides the comparison
\* (0.2 - 0.05 = 0.15000000000000002 > 0.15, while 0.25 - 0.05 = 0.2)
TrendTie(first, last, margin) ==
    first.d # 0 /\ last.d # 0 /\ last = FAdd(first, margin)

\* TrafficLightMonitor._compute_trend; rounds_past tells on which side of
\* recent_abs[-1] the rounded double falls when the quotients are exactly 0.05 apart
compute_trend(history, rounds_past) ==
    IF Len(history) < 2 THEN "stable"
    ELSE LET recent == Recent(history)
             first == FAbs(recent[1])
             last == FAbs(recent[Len(recent)])
         IN  IF FLt(last, FSub(first, TREND_MARGIN))
                \/ (rounds_past /\ TrendTie(first, last, FNeg(TREND_MARGIN)))
             THEN "improving"
             ELSE IF FGt(last, FAdd(first, TREND_MARGIN))
                     \/ (rounds_past /\ TrendTie(first, last, TREND_MARGIN))
             THEN "worsening"
             ELSE "stable"

\* priority = {Status.RED: 0, Status.YELLOW: 1, Status.GREEN: 2}
StatusPriority(status) == IF status = "red" THEN 0 ELSE IF status = "yellow" THEN 1 ELSE 2

\* key(a) <= key(b) for the key (priority[s.status], -abs(s.drift_pct))
StatusKeyLe(a, b) ==
    \/ StatusPriority(a.status) < StatusPriority(b.status)
    \/ /\ StatusPriority(a.status) = StatusPriority(b.status)
       /\ FGe(FAbs(a.drift_pct), FAbs(b.drift_pct))

\* the colour alone as the key
InsertStatus_ByColour(sorted, x) ==
    LET k == Cardinality({i \in 1..Len(sorted) :
                             StatusPriority(sorted[i].status) <= StatusPriority(x.status)})
    IN  SubSeq(sorted, 1, k) \o << x >> \o SubSeq(sorted, k + 1, Len(sorted))

InsertStatus(sorted, x) ==
    LET k == Cardinality({i \in 1..Len(sorted) : StatusKeyLe(sorted[i], x)})
    IN  SubSeq(sorted, 1, k) \o << x >> \o SubSeq(sorted, k + 1, Len(sorted))

RECURSIVE SortStatuses(_)
\* stand_statuses.sort(key=lambda s: (priority[s.status], -abs(s.drift_pct)))
SortStatuses(statuses) ==
    IF statuses = << >> THEN << >>
    ELSE InsertStatus(SortStatuses(SubSeq(statuses, 1, Len(statuses) - 1)),
                      statuses[Len(statuses)])

\* the index in the detector's history of the latest report for tw, 0 if there is none
LatestReport(tw) ==
    LET hits == {i \in 1..Len(drift_history) : drift_history[i].time_window = tw}
    IN  IF hits = {} THEN 0 ELSE CHOOSE i \in hits : \A j \in hits : j <= i

\* self._stand_drift_history after the stand loop over the report
StandDriftHistoryAfter(report) ==
    [s \in DOMAIN stand_drift_history \cup DOMAIN report.stand_drifts |->
        IF s \in DOMAIN report.stand_drifts
        THEN Append(IF s \in DOMAIN stand_drift_history THEN stand_drift_history[s] ELSE << >>,
                    report.stand_drifts[s])
        ELSE stand_drift_history[s]]

StandStatus(stand, report, tw, rounds_past) ==
    [stand |-> stand,
     status |-> classify_status(report.stand_drifts[stand]),
     drift_pct |-> report.stand_drifts[stand],
     forecast_qty |-> Get(fc_stand, <<stand, tw>>),
     actual_qty |-> Get(actual_by_stand_window, <<stand, tw>>),
     trend |-> compute_trend(StandDriftHistoryAfter(report)[stand], rounds_past)]

OverallStatus(tw, overall_drift, stand_statuses) ==
    [time_window |-> tw,
     overall_status |-> classify_status(overall_drift),
     overall_drift |-> overall_drift,
     stand_statuses |-> stand_statuses,
     cumulative_drift |-> CumulativeDrift]

\* TrafficLightMonitor.update
update(tw) ==
    /\ lastCall' = Call("update", tw)
    /\ IF LatestReport(tw) = 0
       THEN /\ ret' = [kind |-> "OverallStatus", value |-> OverallStatus(tw, Zero, << >>)]
            /\ UNCHANGED monitor
       ELSE LET report == drift_history[LatestReport(tw)]
            IN  \E order \in Orders(DOMAIN report.stand_drifts),
                   rounds_past \in [DOMAIN report.stand_drifts -> BOOLEAN] :
                    LET statuses == [i \in 1..Len(order) |->
                                        StandStatus(order[i], report, tw, rounds_past[order[i]])]
                        status == OverallStatus(tw, report.overall_volume_drift,
                                                SortStatuses(statuses))
                    IN  /\ Len(tl_history) < MaxUpdates
                        /\ stand_drift_history' = StandDriftHistoryAfter(report)
                        /\ tl_history' = Append(tl_history, status)
                        /\ ret' = [kind |-> "OverallStatus", value |-> status]
    /\ UNCHANGED <<forecasts, actuals, cumulative_forecast, drift_history>>

UpdateStep == \E tw \in Windows : update(tw)

\* the event stream of a game and the window checks on it
Next ==
    \/ IngestStep /\ UNCHANGED <<session, forecasting, web, backtesting>>
    \/ CheckDriftStep /\ UNCHANGED <<session, forecasting, web, backtesting>>

Spec == Init /\ [][Next]_vars

\* a game session with its reporting calls and the traffic-light monitor attached
NextLive ==
    \/ EventsIngested < MaxLiveIngest /\ IngestStep /\ UNCHANGED <<session, forecasting, web, backtesting>>
    \/ Len(drift_history) < MaxLiveChecks /\ CheckDriftStep /\ UNCHANGED <<session, forecasting, web, backtesting>>
    \/ cumulative_drift /\ UNCHANGED <<session, forecasting, web, backtesting>>
    \/ summary /\ UNCHANGED <<session, forecasting, web, backtesting>>
    \/ Len(tl_history) < MaxLiveUpdates /\ UpdateStep /\ UNCHANGED <<session, forecasting, web, backtesting>>

SpecLive == Init /\ [][NextLive]_vars

\* one stand watched over the checks of its first window: the sales of the Canteen
\* arrive, the window is checked again and again and the monitor updated each time
TrendEvents == {event \in Events : event.stand = Canteen /\ event.time_window = 0}

NextTrend ==
    \/ /\ EventsIngested < MaxTrendIngest
       /\ \E event \in TrendEvents : ingest_event(event)
       /\ UNCHANGED <<session, forecasting, web, backtesting>>
    \/ check_drift(0) /\ UNCHANGED <<session, forecasting, web, backtesting>>
    \/ update(0) /\ UNCHANGED <<session, forecasting, web, backtesting>>

SpecTrend == Init /\ [][NextTrend]_vars

(* ---------------- backend/engine/ai/reasoning.py ---------------- *)
ReasoningResult(cause, confidence, actions, alert_text, raw_reasoning) ==
    [cause |-> cause, confidence |-> confidence, actions |-> actions,
     alert_text |-> alert_text, raw_reasoning |-> raw_reasoning]

\* the causes SYSTEM_PROMPT asks the service to choose from
DriftCauses == {"volume_surge", "volume_drop", "untagged_promo", "stand_redistribution",
                "weather_effect", "timing_shift", "noise"}

\* sum(1 for d in report.stand_drifts.values() if d > 0.2)
PositiveStands(report) ==
    Cardinality({st \in DOMAIN report.stand_drifts :
                    FGt(report.stand_drifts[st], [n |-> 1, d |-> 5])})

\* sum(1 for d in report.stand_drifts.values() if d < -0.3)
NegativeStands(report) ==
    Cardinality({st \in DOMAIN report.stand_drifts :
                    FLt(report.stand_drifts[st], [n |-> -3, d |-> 10])})

\* the if / elif chain of _fallback_classify
FallbackCause(report) ==
    LET vol == report.overall_volume_drift
    IN  IF NegativeStands(report) >= 1 /\ PositiveStands(report) >= 1
        THEN "stand_redistribution"
        ELSE IF FGt(vol, [n |-> 3, d |-> 10]) THEN "volume_surge"
        ELSE IF FLt(vol, [n |-> -3, d |-> 10]) THEN "volume_drop"
        ELSE "noise"

\* _fallback_classify
fallback_classify(report) ==
    ReasoningResult(FallbackCause(report), [n |-> 1, d |-> 2], << >>,
                    "AI unavailable", "Fallback classification")

\* what client.messages.create and the parsing of its text can come to: the call
\* raises; the text holds no JSON object (parsed = {}); the text holds a broken one
\* (json.loads raises); the text is a JSON object naming a cause
ServiceOutcomes ==
    {[kind |-> "exception"], [kind |-> "no_json"], [kind |-> "bad_json"]}
        \cup {[kind |-> "json", cause |-> c] : c \in DriftCauses}

\* the except branch carried away: the exception leaves analyze_drift
analyze_drift_NoFallback(report) ==
    /\ lastCall' = Call("analyze_drift", report.time_window)
    /\ \E outcome \in ServiceOutcomes :
           /\ api' = IF outcome.kind = "exception" THEN "exception" ELSE "response"
           /\ ret' = IF outcome.kind \in {"exception", "bad_json"}
                     THEN [kind |-> "Exception"]
                     ELSE [kind |-> "ReasoningResult",
                           value |-> ReasoningResult(
                               IF outcome.kind = "json" THEN outcome.cause ELSE "noise",
                               [n |-> 1, d |-> 2], << >>, "alert", "raw")]

\* analyze_drift: the prompt is built from the report (formatting only), the service
\* is called inside try, and any exception ends in _fallback_classify
analyze_drift(report) ==
    /\ lastCall' = Call("analyze_drift", report.time_window)
    /\ \E outcome \in ServiceOutcomes :
           /\ api' = IF outcome.kind = "exception" THEN "exception" ELSE "response"
           /\ ret' = [kind |-> "ReasoningResult",
                      value |-> IF outcome.kind \in {"exception", "bad_json"}
                                THEN fallback_classify(report)
                                ELSE ReasoningResult(
                                    IF outcome.kind = "json" THEN outcome.cause ELSE "noise",
                                    [n |-> 1, d |-> 2], << >>, "alert", "raw")]

(* ---------------- backend/main.py: simulation_websocket ---------------- *)
detector == <<forecasts, actuals, cumulative_forecast, drift_history, monitor, lastCall, ret>>

\* GameSimulator.run takes the next transaction of the game, in time order, and
\* calls the observers with its event: on_event is entered
SimNextEvent ==
    /\ thread.pc = "run"
    /\ EventsIngested < MaxSessionEvents
    /\ \E event \in Events :
           /\ thread.current_window = None \/ event.time_window >= thread.current_window
           /\ thread' = [thread EXCEPT !.pc = "on_event", !.event = << event >>]
    /\ UNCHANGED <<detector, handler, stop_requested, skip_ai, api>>

\* on_event returns: detector.ingest_event(event); at a window boundary the window
\* observers are called next for the window left behind
SimOnEvent ==
    /\ thread.pc = "on_event"
    /\ ingest_event(thread.event[1])
    /\ LET tw == thread.event[1].time_window
           boundary == thread.current_window # None /\ tw # thread.current_window
       IN  thread' = [thread EXCEPT !.pc = IF boundary THEN "check_drift" ELSE "run",
                                    !.notify = IF boundary THEN thread.current_window ELSE None,
                                    !.event = << >>,
                                    !.current_window = tw]
    /\ UNCHANGED <<handler, stop_requested, skip_ai, api>>

\* run returning with no notification for the last window
SimEndOfGame_NoFinalNotification ==
    /\ thread.pc = "run"
    /\ thread' = [thread EXCEPT !.pc = "finished"]
    /\ UNCHANGED <<detector, handler, stop_requested, skip_ai, api>>

\* the transactions are exhausted: the final window notification, if any
SimEndOfGame ==
    /\ thread.pc = "run"
    /\ thread' = IF thread.current_window # None
                 THEN [thread EXCEPT !.pc = "check_drift", !.notify = thread.current_window,
                                     !.final = TRUE]
                 ELSE [thread EXCEPT !.pc = "finished"]
    /\ UNCHANGED <<detector, handler, stop_requested, skip_ai, api>>

\* on_window: drift_report = detector.check_drift(tw) returns
SimCheckDrift ==
    /\ thread.pc = "check_drift"
    /\ check_drift(thread.notify)
    /\ thread' = [thread EXCEPT !.pc = "update"]
    /\ UNCHANGED <<handler, stop_requested, skip_ai, api>>

\* on_window: status = monitor.update(tw) returns; a report with significant drift
\* goes to the reasoning step, any other is sent as it is and run goes on
SimUpdate ==
    /\ thread.pc = "update"
    /\ update(thread.notify)
    /\ thread' = IF HasSignificantDrift(drift_history[Len(drift_history)])
                 THEN [thread EXCEPT !.pc = "reasoning"]
                 ELSE [thread EXCEPT !.pc = IF thread.final THEN "finished" ELSE "run",
                                     !.notify = None]
    /\ UNCHANGED <<handler, stop_requested, skip_ai, api>>

\* on_window: analyze_drift inside try / except Exception: pass, or the rule-based
\* classification when the AI is disabled; then the message is sent and run goes on
SimReasoning ==
    /\ thread.pc = "reasoning"
    /\ IF skip_ai
       THEN /\ lastCall' = Call("_fallback_classify", thread.notify)
            /\ ret' = [kind |-> "ReasoningResult",
                       value |-> fallback_classify(drift_history[Len(drift_history)])]
            /\ UNCHANGED api
       ELSE analyze_drift(drift_history[Len(drift_history)])
    /\ thread' = [thread EXCEPT !.pc = IF thread.final THEN "finished" ELSE "run",
                                !.notify = None]
    /\ UNCHANGED <<forecasts, actuals, cumulative_forecast, drift_history, monitor,
                   handler, stop_requested, skip_ai>>

\* while thread.is_alive(): a client message {"action": "stop"} breaks the loop
HandlerStop ==
    /\ handler = "wait"
    /\ thread.pc # "finished"
    /\ handler' = "join"
    /\ stop_requested' = TRUE
    /\ UNCHANGED <<detector, thread, skip_ai, api>>

\* while thread.is_alive(): the thread has ended
HandlerThreadEnded ==
    /\ handler = "wait"
    /\ thread.pc = "finished"
    /\ handler' = "join"
    /\ UNCHANGED <<detector, thread, stop_requested, skip_ai, api>>

\* except WebSocketDisconnect: return
HandlerDisconnect ==
    /\ handler = "wait"
    /\ thread.pc # "finished"
    /\ handler' = "closed"
    /\ UNCHANGED <<detector, thread, stop_requested, skip_ai, api>>

\* thread.join(timeout=5) returns, the thread ended or the 5 seconds gone by
HandlerJoin ==
    /\ handler = "join"
    /\ handler' = "report"
    /\ UNCHANGED <<detector, thread, stop_requested, skip_ai, api>>

\* summary = detector.summary() and the "complete" message
HandlerSummary ==
    /\ handler = "report"
    /\ summary
    /\ handler' = "complete"
    /\ UNCHANGED <<thread, stop_requested, skip_ai, api>>

NextSession ==
    \/ SimNextEvent /\ UNCHANGED <<forecasting, web, backtesting>>
    \/ SimOnEvent /\ UNCHANGED <<forecasting, web, backtesting>>
    \/ SimEndOfGame /\ UNCHANGED <<forecasting, web, backtesting>>
    \/ SimCheckDrift /\ UNCHANGED <<forecasting, web, backtesting>>
    \/ SimUpdate /\ UNCHANGED <<forecasting, web, backtesting>>
    \/ SimReasoning /\ UNCHANGED <<forecasting, web, backtesting>>
    \/ HandlerStop /\ UNCHANGED <<forecasting, web, backtesting>>
    \/ HandlerThreadEnded /\ UNCHANGED <<forecasting, web, backtesting>>
    \/ HandlerDisconnect /\ UNCHANGED <<forecasting, web, backtesting>>
    \/ HandlerJoin /\ UNCHANGED <<forecasting, web, backtesting>>
    \/ HandlerSummary /\ UNCHANGED <<forecasting, web, backtesting>>

\* skip_ai = config.get("skip_ai", not HAS_AI)
SessionInit ==
    /\ DetectorInit
    /\ thread = ThreadInit
    /\ handler = "wait"
    /\ stop_requested = FALSE
    /\ skip_ai \in BOOLEAN
    /\ api = "none"
    /\ ForecastIdle
    /\ WebIdle
    /\ BacktestIdle

SpecSession == SessionInit /\ [][NextSession]_vars

\* forecasts asked for games, each one corrected at most once as the backtest does
ForecastsAsked == IF game = NoGame THEN 0 ELSE IF game_prev = NoGame THEN 1 ELSE 2

\* a second forecast is asked for the game of the first with any attendance
NextForecast ==
    \/ /\ ForecastsAsked < MaxForecasts
       /\ \E g \in GameContexts :
            /\ game # NoGame => g = [game EXCEPT !.attendance = g.attendance]
            /\ generate_forecast(g)
       /\ UNCHANGED <<detector, session, web, backtesting>>
    \/ CorrectionStep /\ UNCHANGED <<detector, session, web, backtesting>>

\* run_backtest before its first forecast: no session running
BacktestInit ==
    /\ DetectorInit
    /\ thread = ThreadInit
    /\ handler = "wait"
    /\ stop_requested = FALSE
    /\ skip_ai = FALSE
    /\ api = "none"
    /\ ForecastInit
    /\ WebIdle
    /\ BacktestIdle

SpecForecast == BacktestInit /\ [][NextForecast]_vars

(* ---------------- web/simulation.py, web/events.py ---------------- *)
\* a WebSimulation after __init__ and start(): the stop Event, _running, the place of
\* its thread in _run, the windows processed so far, and the detector calls it has made
WebSimulation(skip) ==
    [pc |-> "load", stop |-> FALSE, running |-> TRUE, skip_ai |-> skip, window |-> 0,
     detector_calls |-> 0]

\* self.socketio.emit(event, data), from the thread of simulation s; 0 is a handler
Emit(s, event) == channel' = Append(channel, <<s, event>>)

\* WebSimulation.stop on the active simulation
Stopped(s) == [sims EXCEPT ![s].stop = TRUE, ![s].running = FALSE]

\* sim:start: the active simulation is stopped, a new one made active and started
handle_start ==
    /\ Len(sims) < MaxSims
    /\ \E skip \in BOOLEAN :
        sims' = Append(IF active_sim # None THEN Stopped(active_sim) ELSE sims,
                       WebSimulation(skip))
    /\ active_sim' = Len(sims) + 1
    /\ UNCHANGED channel

\* sim:stop
handle_stop ==
    /\ Cardinality({i \in 1..Len(channel) : channel[i][1] = 0}) < MaxStops
    /\ IF active_sim # None
       THEN /\ sims' = Stopped(active_sim)
            /\ active_sim' = None
       ELSE UNCHANGED <<sims, active_sim>>
    /\ Emit(0, "sim:status")

\* _run up to the forecast: "Loading historical profiles...", then either the
\* scenario is unknown or the forecast is made and sim:started is sent
WebLoad(s) ==
    /\ sims[s].pc = "load"
    /\ Emit(s, "sim:status")
    /\ sims' = [sims EXCEPT ![s].pc = "started"]
    /\ UNCHANGED active_sim

WebStarted(s) ==
    /\ sims[s].pc = "started"
    /\ \E known \in BOOLEAN :
        IF known
        THEN /\ Emit(s, "sim:started")
             /\ sims' = [sims EXCEPT ![s].pc = "stop_check"]
        ELSE /\ Emit(s, "sim:error")
             /\ sims' = [sims EXCEPT ![s].pc = "done", ![s].running = FALSE]
    /\ UNCHANGED active_sim

\* if self._stop.is_set(): return, before the batch run
WebStopCheck(s) ==
    /\ sims[s].pc = "stop_check"
    /\ sims' = IF sims[s].stop
               THEN [sims EXCEPT ![s].pc = "done", ![s].running = FALSE]
               ELSE [sims EXCEPT ![s].pc = "loop"]
    /\ UNCHANGED <<active_sim, channel>>

\* the head of the loop over sorted_windows: the only test of the stop flag before the
\* window is processed
WebLoopTop(s) ==
    /\ sims[s].pc = "loop"
    /\ sims' = IF sims[s].window = WebWindows \/ sims[s].stop
               THEN [sims EXCEPT ![s].pc = "complete_check"]
               ELSE [sims EXCEPT ![s].pc = "ingest"]
    /\ UNCHANGED <<active_sim, channel>>

\* detector.ingest_event for every event of the window
WebIngest(s) ==
    /\ sims[s].pc = "ingest"
    /\ sims' = [sims EXCEPT ![s].pc = "check_drift",
                            ![s].detector_calls = sims[s].detector_calls + 1]
    /\ UNCHANGED <<active_sim, channel>>

\* detector.check_drift(tw) and traffic_monitor.update(tw)
WebCheckDrift(s) ==
    /\ sims[s].pc = "check_drift"
    /\ sims' = [sims EXCEPT ![s].pc = "emit_window",
                            ![s].detector_calls = sims[s].detector_calls + 1]
    /\ UNCHANGED <<active_sim, channel>>

WebEmitWindow(s) ==
    /\ sims[s].pc = "emit_window"
    /\ Emit(s, "sim:window")
    /\ sims' = [sims EXCEPT ![s].pc = "emit_traffic"]
    /\ UNCHANGED active_sim

\* sim:traffic, then the reasoning when the AI is on and the overall status is red
WebEmitTraffic(s) ==
    /\ sims[s].pc = "emit_traffic"
    /\ Emit(s, "sim:traffic")
    /\ \E red \in BOOLEAN :
        sims' = [sims EXCEPT ![s].pc = IF ~sims[s].skip_ai /\ red THEN "alert" ELSE "sleep"]
    /\ UNCHANGED active_sim

\* analyze_drift and sim:alert, or the exception passed over
WebAlert(s) ==
    /\ sims[s].pc = "alert"
    /\ \E raised \in BOOLEAN :
        IF raised THEN UNCHANGED channel ELSE Emit(s, "sim:alert")
    /\ sims' = [sims EXCEPT ![s].pc = "sleep"]
    /\ UNCHANGED active_sim

\* the pacing sleep, left at the delay or at the stop flag
WebSleep(s) ==
    /\ sims[s].pc = "sleep"
    /\ sims' = [sims EXCEPT ![s].pc = "loop", ![s].window = sims[s].window + 1]
    /\ UNCHANGED <<active_sim, channel>>

\* if not self._stop.is_set(), after the loop
WebCompleteCheck(s) ==
    /\ sims[s].pc = "complete_check"
    /\ sims' = IF sims[s].stop
               THEN [sims EXCEPT ![s].pc = "done", ![s].running = FALSE]
               ELSE [sims EXCEPT ![s].pc = "complete"]
    /\ UNCHANGED <<active_sim, channel>>

\* detector.summary(), the post-game report, sim:complete
WebComplete(s) ==
    /\ sims[s].pc = "complete"
    /\ Emit(s, "sim:complete")
    /\ sims' = [sims EXCEPT ![s].pc = "done", ![s].running = FALSE,
                            ![s].detector_calls = sims[s].detector_calls + 1]
    /\ UNCHANGED active_sim

NotWeb == <<detector, session, forecasting, backtesting>>

NextWeb ==
    \/ handle_start /\ UNCHANGED NotWeb
    \/ handle_stop /\ UNCHANGED NotWeb
    \/ \E s \in DOMAIN sims : WebLoad(s) /\ UNCHANGED NotWeb
    \/ \E s \in DOMAIN sims : WebStarted(s) /\ UNCHANGED NotWeb
    \/ \E s \in DOMAIN sims : WebStopCheck(s) /\ UNCHANGED NotWeb
    \/ \E s \in DOMAIN sims : WebLoopTop(s) /\ UNCHANGED NotWeb
    \/ \E s \in DOMAIN sims : WebIngest(s) /\ UNCHANGED NotWeb
    \/ \E s \in DOMAIN sims : WebCheckDrift(s) /\ UNCHANGED NotWeb
    \/ \E s \in DOMAIN sims : WebEmitWindow(s) /\ UNCHANGED NotWeb
    \/ \E s \in DOMAIN sims : WebEmitTraffic(s) /\ UNCHANGED NotWeb
    \/ \E s \in DOMAIN sims : WebAlert(s) /\ UNCHANGED NotWeb
    \/ \E s \in DOMAIN sims : WebSleep(s) /\ UNCHANGED NotWeb
    \/ \E s \in DOMAIN sims : WebCompleteCheck(s) /\ UNCHANGED NotWeb
    \/ \E s \in DOMAIN sims : WebComplete(s) /\ UNCHANGED NotWeb

SpecWeb == Init /\ [][NextWeb]_vars

(* ---------------- data/profiles.py: build_profiles_from_data ---------------- *)
\* numpy round(2)
Round2(f) == Div(Round0(FMul(f, [n |-> 100, d |-> 1])), 100)

\* a row of the merged transactions
Transaction(game_date, stand, item, category_norm, tw, qty) ==
    [game_date |-> game_date, stand |-> stand, Item |-> item, category_norm |-> category_norm,
     time_window |-> tw, Qty |-> qty]

\* a row of the games table as load_games reads it
GameRow(game_date, attendance, puck_drop_hour, day_of_week) ==
    [game_date |-> game_date, attendance |-> attendance, puck_drop_hour |-> puck_drop_hour,
     is_playoff |-> FALSE, is_promo |-> FALSE, promo_type |-> "", temp_mean |-> 8,
     day_of_week |-> day_of_week]

RECURSIVE SumQty(_)
\* rows["Qty"].sum()
SumQty(rows) ==
    IF rows = {} THEN 0
    ELSE LET r == CHOOSE x \in rows : TRUE IN r.Qty + SumQty(rows \ {r})

GameDatesOf(games) == {games[i].game_date : i \in 1..Len(games)}

\* merged["game_date"].map(arch_map).fillna("mixed")
ArchetypeOfDate(game_date, games) ==
    IF game_date \in GameDatesOf(games)
    THEN (CHOOSE g \in {games[i] : i \in 1..Len(games)} : g.game_date = game_date).archetype
    ELSE "mixed"

\* games.groupby("archetype")["game_date"].nunique()
GamesPerArch(archetype, games) ==
    Cardinality({games[i].game_date : i \in {j \in 1..Len(games) : games[j].archetype = archetype}})

\* the average taken over the games in which the rows of the group were sold
CurveDenominator_GamesSold(archetype, rows, games) ==
    Cardinality({r.game_date : r \in rows})

\* the denominator of a curve value: arch_game_count
CurveDenominator(archetype, rows, games) == GamesPerArch(archetype, games)

\* (total_qty / arch_game_count).round(2) for the rows of one group
AvgQty(archetype, rows, games) ==
    Round2(Div(SumQty(rows), CurveDenominator(archetype, rows, games)))

ArchetypeRows(merged, games, archetype) ==
    {r \in merged : ArchetypeOfDate(r.game_date, games) = archetype}

BuiltStandCurves(merged, games) ==
    {LET archetype == ArchetypeOfDate(r.game_date, games)
     IN  [archetype |-> archetype, stand |-> r.stand, time_window |-> r.time_window,
          avg_qty |-> AvgQty(archetype,
                             {x \in ArchetypeRows(merged, games, archetype) :
                                 x.stand = r.stand /\ x.time_window = r.time_window},
                             games)] : r \in merged}

BuiltItemCurves(merged, games) ==
    {LET archetype == ArchetypeOfDate(r.game_date, games)
     IN  [archetype |-> archetype, Item |-> r.Item, time_window |-> r.time_window,
          avg_qty |-> AvgQty(archetype,
                             {x \in ArchetypeRows(merged, games, archetype) :
                                 x.Item = r.Item /\ x.time_window = r.time_window},
                             games)] : r \in merged}

BuiltStandItemCurves(merged, games) ==
    {LET archetype == ArchetypeOfDate(r.game_date, games)
     IN  [archetype |-> archetype, stand |-> r.stand, Item |-> r.Item,
          time_window |-> r.time_window,
          avg_qty |-> AvgQty(archetype,
                             {x \in ArchetypeRows(merged, games, archetype) :
                                 /\ x.stand = r.stand /\ x.Item = r.Item
                                 /\ x.time_window = r.time_window},
                             games)] : r \in merged}

build_profiles_from_data(merged, games) ==
    [games |-> games,
     stand_curves |-> BuiltStandCurves(merged, games),
     item_curves |-> BuiltItemCurves(merged, games),
     stand_item_curves |-> BuiltStandItemCurves(merged, games)]

(* ---------------- validation/backtest.py: run_backtest ---------------- *)
\* the games of a season, by date
GameSchedule == <<
    GameRow(1, 2000, 14, "Sun"),
    GameRow(2, 3000, 19, "Fri"),
    GameRow(3, 4000, 19, "Fri"),
    GameRow(4, 2500, 14, "Sun") >>

\* the season so far: the first game, the first two, ...
GameTables == {SubSeq(GameSchedule, 1, n) : n \in 1..Len(GameSchedule)}

\* the sales the games can have had
TransactionPool == {
    Transaction(1, Canteen, "Hot Dog", "Food", 0, 10),
    Transaction(1, Slice, "Fries", "Food", 10, 5),
    Transaction(2, Canteen, "Hot Dog", "Food", 0, 7),
    Transaction(2, Slice, "Draught Beer", "Beer", 0, 2),
    Transaction(3, Canteen, "Draught Beer", "Beer", 0, 50),
    Transaction(4, Canteen, "Hot Dog", "Food", 0, 3) }

\* ARCHETYPE_THRESHOLDS
BeerCrowdShare == [n |-> 1, d |-> 4]
FamilyShare == [n |-> 19, d |-> 100]

\* data/enricher.py classify_archetype, of the transactions of one game
classify_archetype(game_txns) ==
    LET total_qty == SumQty(game_txns)
        beer_qty == SumQty({r \in game_txns : r.category_norm = "Beer"})
    IN  IF total_qty = 0 THEN "mixed"
        ELSE IF ~FLt(Div(beer_qty, total_qty), BeerCrowdShare) THEN "beer_crowd"
        ELSE IF FLt(Div(beer_qty, total_qty), FamilyShare) THEN "family"
        ELSE "mixed"

\* data/enricher.py enrich_games: the archetype of every game from its transactions, mixed
\* for a game without any
enrich_games(games, merged) ==
    [i \in 1..Len(games) |->
        [archetype |-> classify_archetype({r \in merged : r.game_date = games[i].game_date})]
            @@ games[i]]

TransactionsOf(games) == {r \in TransactionPool : r.game_date \in GameDatesOf(games)}

\* load_merged() and enrich_games(): every transaction is of a game of the table
Datasets ==
    UNION {{[games |-> enrich_games(games, merged), merged |-> merged] :
                merged \in SUBSET TransactionsOf(games)} : games \in GameTables}

\* sorted(games["game_date"].unique())
RECURSIVE SortedDates(_)
SortedDates(dates) ==
    IF dates = {} THEN << >>
    ELSE LET first == CHOOSE d \in dates : \A e \in dates : d <= e
         IN  << first >> \o SortedDates(dates \ {first})

GameDates == SortedDates(GameDatesOf(dataset.games))

\* merged[merged["game_date"] != gd_ts]
TrainMerged(gd) == {r \in dataset.merged : r.game_date # gd}

\* the games table with the held-out game left in
TrainGames_NoHoldOut(gd) == dataset.games

\* games[games["game_date"] != gd_ts]
TrainGames(gd) == SelectSeq(dataset.games, LAMBDA g : g.game_date # gd)

\* merged[merged["game_date"] == gd_ts]
GameTxns(gd) == {r \in dataset.merged : r.game_date = gd}

RECURSIVE SumColumn(_, _)
\* df[column].sum() of forecast rows
SumColumn(rows, column) ==
    IF rows = {} THEN 0
    ELSE LET r == CHOOSE x \in rows : TRUE IN r[column] + SumColumn(rows \ {r}, column)

\* prep_fc.merge(actual_items, on="item", how="outer").fillna(0): one row for every
\* item of the forecast or of the game's sales
PrepComp(item_fc, game_txns) ==
    [item \in {r.item : r \in item_fc} \cup {r.Item : r \in game_txns} |->
        [prep_qty |-> SumColumn({r \in item_fc : r.item = item}, "prep_qty"),
         expected_qty |-> SumColumn({r \in item_fc : r.item = item}, "expected_qty"),
         actual_qty |-> SumQty({r \in game_txns : r.Item = item})]]

Max(a, b) == IF a >= b THEN a ELSE b

\* the waste of a row without the floor at 0
ItemWaste_Signed(row) == row.prep_qty - row.actual_qty

\* max(0, r["prep_qty"] - r["actual_qty"])
ItemWaste(row) == Max(0, row.prep_qty - row.actual_qty)

\* max(0, r["actual_qty"] - r["prep_qty"])
ItemStockout(row) == Max(0, row.actual_qty - row.prep_qty)

RECURSIVE SumWaste(_, _)
\* the waste summed over the rows
SumWaste(prep_comp, items) ==
    IF items = {} THEN 0
    ELSE LET i == CHOOSE x \in items : TRUE
         IN  ItemWaste(prep_comp[i]) + SumWaste(prep_comp, items \ {i})

RECURSIVE SumStockout(_, _)
\* the stockout summed over the rows
SumStockout(prep_comp, items) ==
    IF items = {} THEN 0
    ELSE LET i == CHOOSE x \in items : TRUE
         IN  ItemStockout(prep_comp[i]) + SumStockout(prep_comp, items \ {i})

\* (prep_comp["prep_qty"] >= prep_comp["actual_qty"]).sum()
Covered(prep_comp) ==
    Cardinality({i \in DOMAIN prep_comp : prep_comp[i].prep_qty >= prep_comp[i].actual_qty})

\* len(prep_comp[prep_comp["actual_qty"] > 0])
TotalItems(prep_comp) ==
    Cardinality({i \in DOMAIN prep_comp : prep_comp[i].actual_qty > 0})

\* covered / total_items if total_items > 0 else 1.0
PrepCoverage(prep_comp) ==
    IF TotalItems(prep_comp) > 0 THEN Div(Covered(prep_comp), TotalItems(prep_comp)) ELSE One

\* the GameResult of a held-out game; opponent, stand_mape and item_mape are left out
GameResult(g, fc, game_txns) ==
    LET actual_total == SumQty(game_txns)
        forecast_total == SumColumn(fc.item_forecast, "expected_qty")
        prep_comp == PrepComp(fc.item_forecast, game_txns)
    IN  [game_date |-> g.game_date,
         attendance |-> g.attendance,
         archetype |-> g.archetype,
         actual_total |-> actual_total,
         forecast_total |-> forecast_total,
         volume_error |-> IF actual_total > 0
                          THEN Div(forecast_total - actual_total, actual_total) ELSE Zero,
         prep_coverage |-> PrepCoverage(prep_comp),
         waste_units |-> SumWaste(prep_comp, DOMAIN prep_comp),
         stockout_units |-> SumStockout(prep_comp, DOMAIN prep_comp)]

\* what one pass of the loop worked on
Pass(gd, skipped, built, fc) ==
    [game_date |-> gd, skipped |-> skipped, train_merged |-> TrainMerged(gd),
     train_games |-> TrainGames(gd), profiles |-> built, forecast |-> fc]

HeldOut == CHOOSE g \in {dataset.games[i] : i \in 1..Len(dataset.games)} :
                g.game_date = GameDates[position]

\* a pass of the loop that ends at "if train_merged.empty: continue"
BacktestSkip ==
    /\ position <= Len(GameDates)
    /\ TrainMerged(GameDates[position]) = {}
    /\ training' = Append(training, Pass(GameDates[position], TRUE, NoDataset, NoForecast))
    /\ position' = position + 1
    /\ UNCHANGED <<dataset, correction_model, results>>

\* a pass of the loop that appends a GameResult: the profiles of the other dates, the
\* forecast of the held-out game, the correction factor if a model is loaded
BacktestGame ==
    /\ position <= Len(GameDates)
    /\ TrainMerged(GameDates[position]) # {}
    /\ \E cf \in IF correction_model THEN CorrectionFactors ELSE {One} :
        LET gd == GameDates[position]
            built == build_profiles_from_data(TrainMerged(gd), TrainGames(gd))
            fc == IF correction_model THEN Corrected(Forecast(HeldOut, built), cf)
                  ELSE Forecast(HeldOut, built)
        IN  /\ training' = Append(training, Pass(gd, FALSE, built, fc))
            /\ results' = Append(results, GameResult(HeldOut, fc, GameTxns(gd)))
    /\ position' = position + 1
    /\ UNCHANGED <<dataset, correction_model>>

\* run_backtest entered: the tables loaded, the correction model found or not
RunBacktestInit ==
    /\ DetectorInit
    /\ thread = ThreadInit
    /\ handler = "wait"
    /\ stop_requested = FALSE
    /\ skip_ai = FALSE
    /\ api = "none"
    /\ ForecastIdle
    /\ WebIdle
    /\ dataset \in Datasets
    /\ correction_model \in BOOLEAN
    /\ position = 1
    /\ training = << >>
    /\ results = << >>

NotBacktest == <<detector, session, forecasting, web>>

NextBacktest ==
    \/ BacktestSkip /\ UNCHANGED NotBacktest
    \/ BacktestGame /\ UNCHANGED NotBacktest

SpecBacktest == RunBacktestInit /\ [][NextBacktest]_vars

(* ======================= properties ======================= *)
\* check_drift has just returned its report for CheckedWindow
JustChecked == lastCall.op = "check_drift" /\ ret.kind = "DriftReport"
CheckedWindow == lastCall.time_window
LastReport == ret.value

EventCount(tw) == Get(event_count_by_window, tw)

HasOverallSignal(report) ==
    \E i \in 1..Len(report.signals) : report.signals[i].scope = "overall"

\* the windows check_drift has been called for
CheckedWindows == {drift_history[i].time_window : i \in 1..Len(drift_history)}
CheckedForecast == SumOver([w \in Windows |-> FcTotal(w)], CheckedWindows)
CheckedActual == SumOver([w \in Windows |-> ActualTotal(w)], CheckedWindows)

\* C1: cumulative_drift() is (A - F)/F over the windows checked so far, F their
\* summed forecast and A the summed quantity of the events of those windows
\* (0.0 when F = 0); events of windows not yet checked do not enter it.
C1_CumulativeDriftOverCheckedWindows ==
    CumulativeDrift = IF CheckedForecast = 0 THEN Zero
                      ELSE Div(CheckedActual - CheckedForecast, CheckedForecast)

\* C2: a report for a window with fewer than DRIFT_MIN_SAMPLES ingested events
\* holds no signal of scope "overall", whatever its forecast and actual totals.
C2_NoOverallSignalBelowMinSamples ==
    (JustChecked /\ EventCount(CheckedWindow) < DRIFT_MIN_SAMPLES)
        => ~HasOverallSignal(LastReport)

\* a sparse window (1 to 4 events) whose total is at least 15% off a positive forecast
C2_Witness ==
    /\ JustChecked
    /\ EventCount(CheckedWindow) \in 1..(DRIFT_MIN_SAMPLES - 1)
    /\ FcTotal(CheckedWindow) > 0
    /\ FGe(FAbs(Div(ActualTotal(CheckedWindow) - FcTotal(CheckedWindow),
                    FcTotal(CheckedWindow))), DRIFT_VOLUME_THRESHOLD)

\* the report of a forecast-100 window that sold 120: drift 0.20, listed as an
\* overall volume signal, "above", severity "info"
Reports20PercentAbove(report) ==
    /\ report.overall_volume_drift = Div(1, 5)
    /\ \E i \in 1..Len(report.signals) :
           /\ report.signals[i].scope = "overall"
           /\ report.signals[i].drift_type = "volume"
           /\ report.signals[i].magnitude = Div(1, 5)
           /\ report.signals[i].direction = "above"
           /\ Severity(report.signals[i]) = "info"

\* C3 as stated: for a window with forecast 100, any stream of events totalling
\* 120 makes check_drift report overall drift 0.20 with an info signal "above".
C3_AnyStreamOf120 ==
    (JustChecked /\ FcTotal(CheckedWindow) = 100 /\ ActualTotal(CheckedWindow) = 120)
        => Reports20PercentAbove(LastReport)

\* C3 amended: the same for any stream of at least DRIFT_MIN_SAMPLES events.
C3_StreamOfAtLeastMinSamples ==
    (/\ JustChecked
     /\ FcTotal(CheckedWindow) = 100
     /\ ActualTotal(CheckedWindow) = 120
     /\ EventCount(CheckedWindow) >= DRIFT_MIN_SAMPLES)
        => Reports20PercentAbove(LastReport)

C3_Witness ==
    /\ JustChecked
    /\ FcTotal(CheckedWindow) = 100
    /\ ActualTotal(CheckedWindow) = 120
    /\ EventCount(CheckedWindow) >= DRIFT_MIN_SAMPLES
    /\ Reports20PercentAbove(LastReport)

\* C4: every check_drift(w) call, repeated or not, appends exactly one report for w
\* at the end of the history and adds w's forecast total to the cumulative
\* forecast; no step removes, replaces or reorders earlier reports.
C4_EveryCheckAppends ==
    [][/\ Len(drift_history') >= Len(drift_history)
       /\ SubSeq(drift_history', 1, Len(drift_history)) = drift_history
       /\ lastCall'.op = "check_drift" =>
              /\ ret'.kind = "DriftReport"
              /\ Len(drift_history') = Len(drift_history) + 1
              /\ drift_history'[Len(drift_history')].time_window = lastCall'.time_window
              /\ drift_history'[Len(drift_history')] = ret'.value
              /\ cumulative_forecast' =
                     cumulative_forecast + FcTotal(lastCall'.time_window)]_vars

\* a window with a positive forecast reported twice, its forecast counted twice
C4_Witness ==
    /\ JustChecked
    /\ Len(drift_history) = 2
    /\ drift_history[1].time_window = drift_history[2].time_window
    /\ FcTotal(CheckedWindow) > 0
    /\ cumulative_forecast = 2 * FcTotal(CheckedWindow)

\* C5: with event quantities >= 1, neither the cumulative actual total nor the
\* cumulative forecast total ever decreases from one state to the next.
C5_CumulativeTotalsNeverDecrease ==
    [][/\ cumulative_actual' >= cumulative_actual
       /\ cumulative_forecast' >= cumulative_forecast]_vars

\* both totals have grown, the actual one by several events
C5_Witness ==
    /\ EventsIngested >= 2
    /\ cumulative_actual >= 2
    /\ cumulative_forecast > 0

\* C6: only ingest_event changes the actual-side accumulators (running sums,
\* event counts, cumulative actual); check_drift, cumulative_drift, summary and
\* TrafficLightMonitor.update leave them unchanged, and update also leaves the
\* cumulative forecast and the report history unchanged.
C6_OnlyIngestChangesActuals ==
    [][/\ lastCall'.op \in {"check_drift", "cumulative_drift", "summary", "update"}
              => UNCHANGED actuals
       /\ lastCall'.op = "update"
              => UNCHANGED <<cumulative_forecast, drift_history>>]_vars

\* update has built stand statuses from a report while events were accumulated
C6_Witness ==
    /\ lastCall.op = "update"
    /\ Len(tl_history) >= 1
    /\ tl_history[Len(tl_history)].stand_statuses # << >>
    /\ cumulative_actual > 0
    /\ cumulative_forecast > 0

\* the stand a volume signal's scope names
StandOfScope(scope) == CHOOSE st \in Stands : ShortName(st) = scope

ScopeActual(signal, tw) ==
    IF signal.scope = "overall" THEN ActualTotal(tw)
    ELSE IF signal.drift_type = "volume" THEN StandActual(StandOfScope(signal.scope), tw)
    ELSE ItemActual(signal.scope, tw)

ScopeFc(signal, tw) ==
    IF signal.scope = "overall" THEN FcTotal(tw)
    ELSE IF signal.drift_type = "volume" THEN StandFc(StandOfScope(signal.scope), tw)
    ELSE ItemFc(signal.scope, tw)

\* magnitude = (actual - forecast) / forecast of the signal's scope
MagnitudeIsRelativeDeviation(signal, tw) ==
    signal.magnitude = Div(ScopeActual(signal, tw) - ScopeFc(signal, tw), ScopeFc(signal, tw))

DirectionFollowsSign(signal) ==
    /\ signal.direction = "above" <=> FGt(signal.magnitude, Zero)
    /\ signal.direction = "below" <=> FLt(signal.magnitude, Zero)

\* C7 as stated: every signal of every report has magnitude (actual - forecast) /
\* forecast of its scope in that window, and direction "above" exactly when the
\* magnitude is positive, "below" exactly when it is negative.
C7_EverySignalIsRelativeDeviation ==
    JustChecked =>
        \A i \in 1..Len(LastReport.signals) :
            /\ MagnitudeIsRelativeDeviation(LastReport.signals[i], CheckedWindow)
            /\ DirectionFollowsSign(LastReport.signals[i])

\* the signal of a stand that sold more than DRIFT_MIN_SAMPLES units without a
\* positive forecast: magnitude 1.0, "above"
IsUnforecastStandSignal(signal, tw) ==
    /\ signal.drift_type = "volume"
    /\ signal.scope # "overall"
    /\ ScopeFc(signal, tw) = 0
    /\ ScopeActual(signal, tw) > 5
    /\ signal.magnitude = One
    /\ signal.direction = "above"

\* C7 amended: every signal whose scope has a positive forecast has magnitude
\* (actual - forecast) / forecast; the only other signal is that of a stand
\* without positive forecast that sold more than 5 units, with magnitude 1.0;
\* every signal's direction follows the sign of its magnitude.
C7_SignalsOfForecastScopes ==
    JustChecked =>
        \A i \in 1..Len(LastReport.signals) :
            /\ IF ScopeFc(LastReport.signals[i], CheckedWindow) > 0
               THEN MagnitudeIsRelativeDeviation(LastReport.signals[i], CheckedWindow)
               ELSE IsUnforecastStandSignal(LastReport.signals[i], CheckedWindow)
            /\ DirectionFollowsSign(LastReport.signals[i])

\* a report with an "above" and a "below" signal of forecast scopes, one a stand's
C7_Witness ==
    /\ JustChecked
    /\ \E i, j \in 1..Len(LastReport.signals) :
           /\ ScopeFc(LastReport.signals[i], CheckedWindow) > 0
           /\ ScopeFc(LastReport.signals[j], CheckedWindow) > 0
           /\ LastReport.signals[i].direction = "above"
           /\ LastReport.signals[j].direction = "below"
           /\ LastReport.signals[j].drift_type = "volume"
           /\ LastReport.signals[j].scope # "overall"

HasSignal(report, drift_type, scope) ==
    \E i \in 1..Len(report.signals) :
        report.signals[i].drift_type = drift_type /\ report.signals[i].scope = scope

AbsDeviation(actual, fc) == FAbs(Div(actual - fc, fc))

\* C8: a stand with a positive forecast and at least one event in the window gets
\* a volume signal iff |drift| >= 0.15, an item with a positive forecast and at
\* least one event a mix signal iff |drift| >= 0.30, whatever the event count.
C8_StandAndItemThresholds ==
    JustChecked =>
        /\ \A st \in StandsThisWindow(CheckedWindow) :
               StandFc(st, CheckedWindow) > 0 =>
                   (HasSignal(LastReport, "volume", ShortName(st)) <=>
                    FGe(AbsDeviation(StandActual(st, CheckedWindow), StandFc(st, CheckedWindow)),
                        Div(15, 100)))
        /\ \A it \in ItemsThisWindow(CheckedWindow) :
               ItemFc(it, CheckedWindow) > 0 =>
                   (HasSignal(LastReport, "mix", it) <=>
                    FGe(AbsDeviation(ItemActual(it, CheckedWindow), ItemFc(it, CheckedWindow)),
                        Div(30, 100)))

\* a sparse window with a stand exactly 15% off, an item exactly 30% off and an
\* item less than 30% off
C8_Witness ==
    /\ JustChecked
    /\ EventCount(CheckedWindow) < DRIFT_MIN_SAMPLES
    /\ \E st \in StandsThisWindow(CheckedWindow) :
           /\ StandFc(st, CheckedWindow) > 0
           /\ AbsDeviation(StandActual(st, CheckedWindow), StandFc(st, CheckedWindow))
                  = Div(15, 100)
    /\ \E it, jt \in ItemsThisWindow(CheckedWindow) :
           /\ ItemFc(it, CheckedWindow) > 0
           /\ ItemFc(jt, CheckedWindow) > 0
           /\ AbsDeviation(ItemActual(it, CheckedWindow), ItemFc(it, CheckedWindow))
                  = Div(30, 100)
           /\ FLt(AbsDeviation(ItemActual(jt, CheckedWindow), ItemFc(jt, CheckedWindow)),
                  Div(30, 100))

\* C9: check_drift on a window whose forecast total is zero returns a report
\* without raising, with no overall signal and overall_volume_drift = 0.0,
\* for any number and size of events in that window.
C9_ZeroForecastWindow ==
    (lastCall.op = "check_drift" /\ FcTotal(CheckedWindow) = 0) =>
        /\ ret.kind = "DriftReport"
        /\ ~HasOverallSignal(LastReport)
        /\ LastReport.overall_volume_drift = Zero

\* a zero-forecast window checked with at least DRIFT_MIN_SAMPLES events in it
C9_Witness ==
    /\ JustChecked
    /\ FcTotal(CheckedWindow) = 0
    /\ EventCount(CheckedWindow) >= DRIFT_MIN_SAMPLES
    /\ ActualTotal(CheckedWindow) > 0

\* C10: the signals of every report are in non-increasing order of |magnitude|.
C10_SignalsSortedByAbsMagnitude ==
    \A r \in 1..Len(drift_history) :
        \A i, j \in 1..Len(drift_history[r].signals) :
            i < j => FGe(FAbs(drift_history[r].signals[i].magnitude),
                         FAbs(drift_history[r].signals[j].magnitude))

\* a report of three or more signals of both signs whose overall signal, the
\* first one appended, is not the first one listed
C10_Witness ==
    \E r \in 1..Len(drift_history) :
        LET sig == drift_history[r].signals
        IN  /\ Len(sig) >= 3
            /\ \E i \in 2..Len(sig) : sig[i].scope = "overall"
            /\ \E i, j \in 1..Len(sig) :
                   FLt(sig[i].magnitude, Zero) /\ FGt(sig[j].magnitude, Zero)

(* ---------------- C11 ---------------- *)
\* |magnitude| >= 0.25, on the integers of the fraction
AtLeastQuarter(signal) == 4 * Abs(signal.magnitude.n) >= signal.magnitude.d
\* |magnitude| >= 0.40
AtLeastTwoFifths(signal) == 5 * Abs(signal.magnitude.n) >= 2 * signal.magnitude.d

\* C11: a report's has_significant_drift is true iff the report holds at least one
\* signal with |magnitude| >= 0.25, the severities being critical from 0.40, warning
\* from 0.25 and info below; a report whose signals are all below 0.25 is not
\* significant even though it lists signals.
C11_SignificantIffWarningOrCritical ==
    \A r \in 1..Len(drift_history) :
        LET report == drift_history[r]
        IN  /\ HasSignificantDrift(report)
                <=> \E i \in 1..Len(report.signals) : AtLeastQuarter(report.signals[i])
            /\ \A i \in 1..Len(report.signals) :
                   Severity(report.signals[i]) =
                       IF AtLeastTwoFifths(report.signals[i]) THEN "critical"
                       ELSE IF AtLeastQuarter(report.signals[i]) THEN "warning"
                       ELSE "info"

\* two reports side by side: one lists signals, all below 0.25, and is not
\* significant; the other is significant by a signal of exactly 0.25
C11_Witness ==
    /\ \E r \in 1..Len(drift_history) :
           /\ drift_history[r].signals # << >>
           /\ ~HasSignificantDrift(drift_history[r])
    /\ \E r \in 1..Len(drift_history) :
           /\ HasSignificantDrift(drift_history[r])
           /\ \A i \in 1..Len(drift_history[r].signals) :
                  ~AtLeastTwoFifths(drift_history[r].signals[i])
           /\ \E i \in 1..Len(drift_history[r].signals) :
                  FAbs(drift_history[r].signals[i].magnitude) = [n |-> 1, d |-> 4]

(* ---------------- C12 ---------------- *)
\* update has just returned an OverallStatus
JustUpdated == lastCall.op = "update" /\ ret.kind = "OverallStatus"

\* the colour of a drift, on the integers of the fraction (d = 0 is float("inf"))
ColourOf(drift) ==
    IF 20 * Abs(drift.n) <= 3 * drift.d THEN "green"
    ELSE IF 10 * Abs(drift.n) <= 3 * drift.d THEN "yellow"
    ELSE "red"

StatusIsClassified(status) ==
    /\ status.overall_status = ColourOf(status.overall_drift)
    /\ \A i \in 1..Len(status.stand_statuses) :
           status.stand_statuses[i].status = ColourOf(status.stand_statuses[i].drift_pct)

TrendOfLastThree(history) ==
    IF Len(history) < 2 THEN "stable"
    ELSE LET oldest == FAbs(history[IF Len(history) >= 3 THEN Len(history) - 2 ELSE 1])
             latest == FAbs(history[Len(history)])
         IN  IF FLt(latest, FSub(oldest, TREND_MARGIN)) THEN "improving"
             ELSE IF FGt(latest, FAdd(oldest, TREND_MARGIN)) THEN "worsening"
             ELSE "stable"

\* C13: after any sequence of update calls the trend reported for a stand is
\* "improving" iff the latest of its last (up to) 3 recorded absolute drifts is more
\* than 0.05 below the oldest of them, "worsening" iff it is more than 0.05 above,
\* "stable" otherwise and with fewer than 2 values recorded; older values have no
\* influence.
C13_TrendFromLastThree ==
    JustUpdated =>
        \A i \in 1..Len(ret.value.stand_statuses) :
            LET ss == ret.value.stand_statuses[i]
            IN  ss.trend = TrendOfLastThree(stand_drift_history[ss.stand])

\* the same away from the drifts that lie exactly 0.05 apart
C13_TrendOffTies ==
    JustUpdated =>
        \A i \in 1..Len(ret.value.stand_statuses) :
            LET ss == ret.value.stand_statuses[i]
                recent == Recent(stand_drift_history[ss.stand])
                first == FAbs(recent[1])
                last == FAbs(recent[Len(recent)])
            IN  \/ TrendTie(first, last, TREND_MARGIN)
                \/ TrendTie(first, last, FNeg(TREND_MARGIN))
                \/ ss.trend = TrendOfLastThree(stand_drift_history[ss.stand])

\* four values recorded for a stand, the first of which alone would call for
\* another trend than the one reported
C13_OlderValueDropped ==
    /\ JustUpdated
    /\ \E i \in 1..Len(ret.value.stand_statuses) :
           LET ss == ret.value.stand_statuses[i]
               history == stand_drift_history[ss.stand]
           IN  /\ Len(history) = 4
               /\ ss.trend = "stable"
               /\ FLt(FAbs(history[4]), FSub(FAbs(history[1]), TREND_MARGIN))

(* ---------------- C14 ---------------- *)
Rank(status) == CASE status = "red" -> 1 [] status = "yellow" -> 2 [] status = "green" -> 3

WorstFirst(stand_statuses) ==
    \A i, j \in 1..Len(stand_statuses) :
        i < j =>
            /\ Rank(stand_statuses[i].status) <= Rank(stand_statuses[j].status)
            /\ stand_statuses[i].status = stand_statuses[j].status
                   => FGe(FAbs(stand_statuses[i].drift_pct), FAbs(stand_statuses[j].drift_pct))

\* C14: the stand_statuses of every OverallStatus update returns are ordered
\* worst-first: red before yellow before green, and within one colour in
\* non-increasing order of absolute drift.
C14_StandStatusesWorstFirst ==
    /\ JustUpdated => WorstFirst(ret.value.stand_statuses)
    /\ \A h \in 1..Len(tl_history) : WorstFirst(tl_history[h].stand_statuses)

\* update has returned two stands of one colour and different absolute drifts
C14_Witness ==
    /\ JustUpdated
    /\ Len(ret.value.stand_statuses) = 2
    /\ ret.value.stand_statuses[1].status = ret.value.stand_statuses[2].status
    /\ FGt(FAbs(ret.value.stand_statuses[1].drift_pct),
           FAbs(ret.value.stand_statuses[2].drift_pct))

(* ---------------- C15 ---------------- *)
\* the thread enters a detector call in this step
DetectorCallBegins ==
    /\ thread'.pc # thread.pc
    /\ thread'.pc \in {"on_event", "check_drift"}

\* C15: when a stop is requested while the simulation thread runs, a check_drift in
\* flight runs to completion, no ingest_event or check_drift is executed on the
\* session's detector after the stop, and the final summary is never computed while
\* ingest_event or check_drift calls on that detector are still running or to come.
C15_StopEndsDetectorCalls ==
    /\ [](handler = "complete" => thread.pc = "finished")
    /\ [][stop_requested => ~DetectorCallBegins]_vars
    /\ [][thread.pc = "check_drift" => thread'.pc \in {"check_drift", "update"}]_vars

\* the summary computed on a stop while the thread is inside check_drift
C15_SummaryDuringCheckDrift ==
    stop_requested /\ handler = "complete" /\ thread.pc = "check_drift"

(* ---------------- C16 ---------------- *)
\* analyze_drift has just ended with the service call having raised
JustFailedOver == lastCall.op = "analyze_drift" /\ api = "exception"

\* the cause the rules give for a report, from its overall drift and stand drifts
RuleCause(report) ==
    LET up == \E st \in DOMAIN report.stand_drifts :
                  5 * report.stand_drifts[st].n > report.stand_drifts[st].d
        down == \E st \in DOMAIN report.stand_drifts :
                    10 * report.stand_drifts[st].n < -3 * report.stand_drifts[st].d
        vol == report.overall_volume_drift
    IN  IF up /\ down THEN "stand_redistribution"
        ELSE IF 10 * vol.n > 3 * vol.d THEN "volume_surge"
        ELSE IF 10 * vol.n < -3 * vol.d THEN "volume_drop"
        ELSE "noise"

\* C16: whenever the external reasoning service call fails, analyze_drift does not
\* raise: it returns the rule-based result, whose cause is stand_redistribution,
\* volume_surge, volume_drop or noise as the report's overall drift and stand drifts
\* decide, and the live session goes on with the following windows.
C16_ServiceFailureFallsBack ==
    JustFailedOver =>
        /\ ret.kind = "ReasoningResult"
        /\ ret.value.cause \in {"stand_redistribution", "volume_surge", "volume_drop", "noise"}
        /\ ret.value.cause = RuleCause(drift_history[Len(drift_history)])
        /\ thread.pc = "run" /\ EventsIngested < MaxSessionEvents => ENABLED SimNextEvent

\* the service has failed on a report in which one stand runs above and one below:
\* stand_redistribution is returned and the thread is back in run
C16_Witness ==
    /\ JustFailedOver
    /\ ret.kind = "ReasoningResult"
    /\ ret.value.cause = "stand_redistribution"
    /\ thread.pc = "run"

(* ---------------- C17 ---------------- *)
PrepWithinExpected(rows) == \A r \in rows : r.prep_qty <= r.expected_qty

GranularRows(fc) ==
    IF fc.stand_item_forecast = NoCurves THEN {} ELSE fc.stand_item_forecast

\* C17: in every forecast generate_forecast returns, at the item level and at the
\* stand x item level, and in the forecast after the backtest has applied a correction
\* factor to it, every row has prep_qty <= expected_qty.
C17_PrepNeverAboveExpected ==
    forecast # NoForecast =>
        /\ PrepWithinExpected(forecast.item_forecast)
        /\ PrepWithinExpected(GranularRows(forecast))

\* a corrected forecast with a granular level and an item prepared below its demand
C17_Witness ==
    /\ forecast # NoForecast
    /\ correction = [n |-> 1, d |-> 2]
    /\ \E r \in forecast.item_forecast : 0 < r.prep_qty /\ r.prep_qty < r.expected_qty
    /\ \E r \in GranularRows(forecast) : 0 < r.prep_qty /\ r.prep_qty < r.expected_qty

(* ---------------- C18 ---------------- *)
\* the last two forecasts were asked for the same game but for the attendance, X then 2X,
\* and the first is as generate_forecast returned it
AttendanceDoubled ==
    /\ game_prev # NoGame
    /\ game = [game_prev EXCEPT !.attendance = 2 * game_prev.attendance]
    /\ forecast_prev = Forecast(game_prev, profiles)
    /\ correction = One

\* every stand/window of the two stand forecasts: the second twice the first, within
\* the unit the two roundings can move it by
TwiceUpToRounding(first, second) ==
    /\ {<<r.stand, r.time_window>> : r \in first} = {<<r.stand, r.time_window>> : r \in second}
    /\ \A r \in first : \A q \in second :
        r.stand = q.stand /\ r.time_window = q.time_window
            => Abs(q.expected_qty - 2 * r.expected_qty) <= 1

\* C18 as stated: for any profiles and attendance X, the other inputs identical, every
\* stand/window expected quantity of the forecast for 2X is twice that of the forecast
\* for X, up to integer rounding.
C18_DoubledAttendanceDoubles ==
    AttendanceDoubled
        => TwiceUpToRounding(forecast_prev.stand_forecast, forecast.stand_forecast)

\* C18, amended: the same when both attendances derive the same archetype and the
\* reference attendance of that archetype is positive.
C18_DoubledWithinArchetype ==
    (/\ AttendanceDoubled
     /\ Archetype(game) = Archetype(game_prev)
     /\ FGt(RefAttendance(game, profiles), Zero))
        => TwiceUpToRounding(forecast_prev.stand_forecast, forecast.stand_forecast)

\* the attendance doubled within one archetype, a stand/window whose quantity doubled
\* exactly and one that the rounding moved by a unit
C18_Witness ==
    /\ AttendanceDoubled
    /\ Archetype(game) = Archetype(game_prev)
    /\ FGt(RefAttendance(game, profiles), Zero)
    /\ \E r \in forecast_prev.stand_forecast : \E q \in forecast.stand_forecast :
        /\ r.stand = q.stand /\ r.time_window = q.time_window
        /\ r.expected_qty > 0 /\ q.expected_qty = 2 * r.expected_qty
    /\ \E r \in forecast_prev.stand_forecast : \E q \in forecast.stand_forecast :
        /\ r.stand = q.stand /\ r.time_window = q.time_window
        /\ Abs(q.expected_qty - 2 * r.expected_qty) = 1

(* ---------------- C19 ---------------- *)
RECURSIVE SumExpected(_)
SumExpected(rows) ==
    IF rows = {} THEN 0
    ELSE LET r == CHOOSE x \in rows : TRUE IN r.expected_qty + SumExpected(rows \ {r})

RowsAt(rows, tw) == {r \in rows : r.time_window = tw}

ForecastWindows(fc) == {r.time_window : r \in fc.stand_forecast \cup fc.item_forecast}

\* the stand level and the item level of a forecast tell the same demand in every
\* window, each row off by the rounding of its own quantity at most
LevelsConsistent(fc) ==
    \A tw \in ForecastWindows(fc) :
        Abs(SumExpected(RowsAt(fc.stand_forecast, tw)) - SumExpected(RowsAt(fc.item_forecast, tw)))
            <= Cardinality(RowsAt(fc.stand_forecast, tw)) + Cardinality(RowsAt(fc.item_forecast, tw))

\* C19: generate_forecast applies the same adjustments with the same factors at the
\* three levels, the stand level receiving the temperature factor, the promo override
\* and the 1.15 playoff boost as the item level does, so that for every game context
\* the levels of the forecast returned stay consistent with each other.
C19_LevelsMutuallyConsistent ==
    forecast # NoForecast /\ correction = One => LevelsConsistent(forecast)

\* a game with no adjustment to make: the levels agree
C19_UnadjustedGameConsistent ==
    (/\ forecast # NoForecast /\ correction = One
     /\ game.temp_mean = 8 /\ ~game.is_playoff /\ ~game.is_promo)
        => LevelsConsistent(forecast)

\* a playoff game on a day of 8 degrees with no promo, its stand level left unboosted
C19_PlayoffStandUnboosted ==
    /\ forecast # NoForecast /\ correction = One
    /\ game.is_playoff /\ game.temp_mean = 8 /\ ~game.is_promo
    /\ ~LevelsConsistent(forecast)

(* ---------------- C20 ---------------- *)
\* the forecast as generate_forecast returned it
JustForecast == forecast # NoForecast /\ correction = One

WindowKeys(rows) == {<<r.stand, r.time_window>> : r \in rows}

\* the games of the history that have the archetype
GamesOf(archetype) == SelectSeq(profiles.games, LAMBDA x : x.archetype = archetype)

MeanAttendance(games) == Div(SumAttendance(games), Len(games))

\* the reference attendance of the forecast: of the games of its archetype, of all the
\* games when there is none
ReferenceGames ==
    IF GamesOf(forecast.archetype) = << >> THEN profiles.games ELSE GamesOf(forecast.archetype)

\* a forecast came back: a scale that is a number, and whole quantities
ForecastReturned ==
    /\ forecast.scale_factor.d > 0
    /\ \A r \in forecast.stand_forecast \cup forecast.item_forecast : r.expected_qty \in Nat

\* C20: generate_forecast never raises on missing data: when the derived archetype has
\* no historical curves the rows are those of the mixed archetype's curves, when the
\* archetype has no historical games the scale factor is the attendance over the mean
\* attendance of all the games, and when the reference attendance is zero or negative
\* the scale factor is 1.0.
C20_MissingDataFallsBack ==
    JustForecast =>
        /\ ForecastReturned
        /\ forecast.archetype = Archetype(game)
        /\ {r \in profiles.stand_curves : r.archetype = forecast.archetype} = {}
            => WindowKeys(forecast.stand_forecast)
                 = WindowKeys({r \in profiles.stand_curves :
                                  r.archetype = "mixed" /\ InRange(r.time_window)})
        /\ {r \in profiles.item_curves : r.archetype = forecast.archetype} = {}
            => {<<r.item, r.time_window>> : r \in forecast.item_forecast}
                 = {<<r.Item, r.time_window>> : r \in {x \in profiles.item_curves :
                                  x.archetype = "mixed" /\ InRange(x.time_window)}}
        /\ (GamesOf(forecast.archetype) = << >> /\ SumAttendance(profiles.games) > 0)
            => forecast.scale_factor
                 = Round3(Div(game.attendance * Len(profiles.games),
                              SumAttendance(profiles.games)))
        /\ SumAttendance(ReferenceGames) <= 0 => forecast.scale_factor = One

\* a family game on a history that never saw one: the rows of the mixed curves, scaled
\* by the attendance over the mean of all the games
C20_Witness ==
    /\ JustForecast
    /\ forecast.archetype = "family"
    /\ {r \in profiles.stand_curves : r.archetype = "family"} = {}
    /\ GamesOf("family") = << >>
    /\ forecast.stand_forecast # {}
    /\ forecast.item_forecast # {}
    /\ forecast.scale_factor = Round3(Div(game.attendance, 3000))
    /\ forecast.scale_factor # One

\* a forecast from a history whose attendance is 0 throughout: the scale is 1.0 and the
\* quantities those of the curves
C20_ZeroReferenceScaleOne ==
    /\ JustForecast
    /\ SumAttendance(ReferenceGames) = 0
    /\ forecast.scale_factor = One
    /\ \E r \in forecast.stand_forecast : r.expected_qty > 0

(* ---------------- C28 ---------------- *)
WindowsSeen == DOMAIN actual_by_window

\* the total of the entries of an accumulator that belong to window tw, the window
\* being the last component of the key
TotalAt(d, tw) == SumOver(d, {k \in DOMAIN d : k[Len(k)] = tw})

AccumulatorsAgree ==
    /\ \A tw \in WindowsSeen :
        /\ TotalAt(actual_by_stand_window, tw) = actual_by_window[tw]
        /\ TotalAt(actual_by_item_window, tw) = actual_by_window[tw]
        /\ TotalAt(actual_by_category_window, tw) = actual_by_window[tw]
        /\ TotalAt(actual_by_stand_item_window, tw) = actual_by_window[tw]
    /\ \A k \in DOMAIN actual_by_stand_window \cup DOMAIN actual_by_item_window
                \cup DOMAIN actual_by_category_window
                \cup DOMAIN actual_by_stand_item_window : k[Len(k)] \in WindowsSeen
    /\ DOMAIN event_count_by_window = WindowsSeen
    /\ cumulative_actual = SumOver(actual_by_window, WindowsSeen)

\* an event of window tw is ingested by this step
Ingests(tw) ==
    /\ lastCall'.op = "ingest_event"
    /\ lastCall'.time_window = tw
    /\ actuals' # actuals

\* C28: after any sequence of ingest_event calls the accumulators agree: in every window
\* the per-stand, per-item, per-category and per-(stand, item) totals each sum to the
\* per-window total, the event count of a window is the number of events ingested for
\* it (one more with each of them, and with nothing else), and the cumulative actual is
\* the sum of the per-window totals.
C28_AccumulatorsAgree ==
    /\ [] AccumulatorsAgree
    /\ [][\A tw \in Windows :
            Get(event_count_by_window', tw)
                = Get(event_count_by_window, tw) + (IF Ingests(tw) THEN 1 ELSE 0)]_vars

\* two windows with sales, the first with three events at two stands for two items
C28_Witness ==
    /\ Get(event_count_by_window, 0) = 3
    /\ Get(event_count_by_window, 10) >= 1
    /\ Cardinality({k \in DOMAIN actual_by_stand_window : k[2] = 0}) = 2
    /\ Cardinality({k \in DOMAIN actual_by_item_window : k[2] = 0}) = 2
    /\ cumulative_actual > actual_by_window[0]

(* ---------------- C29 ---------------- *)
\* the window has fewer than DRIFT_MIN_SAMPLES events, and so had fewer at every check
\* of it, or no forecast at all
BelowGate(tw) == EventCount(tw) < DRIFT_MIN_SAMPLES \/ FcTotal(tw) = 0

\* C29: for a window with fewer than 5 ingested events or a zero forecast total the
\* report's overall_volume_drift stays at its default 0.0 and update returns overall
\* status green for it, however far the window's actual total is from its forecast.
C29_UngatedWindowIsGreen ==
    /\ \A i \in 1..Len(drift_history) :
        BelowGate(drift_history[i].time_window) => drift_history[i].overall_volume_drift = Zero
    /\ JustUpdated /\ BelowGate(lastCall.time_window)
        => /\ ret.value.overall_status = "green"
           /\ ret.value.overall_drift = Zero

\* window 0, forecast at 100 and checked with no sale at all: update has returned green
C29_Witness ==
    /\ JustUpdated
    /\ lastCall.time_window = 0
    /\ FcTotal(0) = 100
    /\ ActualTotal(0) = 0
    /\ LatestReport(0) # 0
    /\ ret.value.overall_status = "green"

(* ---------------- C30 ---------------- *)
\* the stands and items with at least one event in the window: every event carries a
\* quantity of 1 or more
StandsWithEvents(tw) == {s \in Stands : StandActual(s, tw) > 0}
ItemsWithEvents(tw) == {e.item : e \in {x \in Events : ItemActual(x.item, tw) > 0}}

\* the scopes of the signals of a report at the given level
ScopesOf(report, drift_type) ==
    {report.signals[i].scope :
        i \in {j \in 1..Len(report.signals) :
                  /\ report.signals[j].drift_type = drift_type
                  /\ report.signals[j].scope # "overall"}}

\* C30: check_drift(w) gives a drift entry, and can give a signal, only to the stands
\* and items with at least one ingested event in w; a stand with a positive forecast and
\* no event in w has no entry, no signal and no stand status of the traffic light for w.
C30_OnlyStandsWithEvents ==
    /\ JustChecked =>
        /\ DOMAIN LastReport.stand_drifts \subseteq StandsWithEvents(CheckedWindow)
        /\ DOMAIN LastReport.item_drifts \subseteq ItemsWithEvents(CheckedWindow)
        /\ ScopesOf(LastReport, "volume")
             \subseteq {ShortName(s) : s \in StandsWithEvents(CheckedWindow)}
        /\ ScopesOf(LastReport, "mix") \subseteq ItemsWithEvents(CheckedWindow)
    /\ JustUpdated =>
        \A i \in 1..Len(ret.value.stand_statuses) :
            ret.value.stand_statuses[i].stand \in StandsWithEvents(lastCall.time_window)

\* window 0 checked and updated with sales at the Canteen only: the Slice, forecast at
\* 80, sold nothing and is in neither the report nor the status
C30_Witness ==
    /\ JustUpdated
    /\ lastCall.time_window = 0
    /\ LatestReport(0) # 0
    /\ StandFc(Slice, 0) = 80
    /\ StandActual(Slice, 0) = 0
    /\ DOMAIN drift_history[LatestReport(0)].stand_drifts = {Canteen}
    /\ Len(ret.value.stand_statuses) = 1
    /\ ShortName(Slice) \notin ScopesOf(drift_history[LatestReport(0)], "volume")

(* ---------------- C27 ---------------- *)
\* the windows of the reports, in the order check_drift was called
WindowsChecked == [i \in 1..Len(drift_history) |-> drift_history[i].time_window]

\* each window notified once at most, in ascending order
AscendingOncePerWindow ==
    \A i, j \in 1..Len(drift_history) : i < j => WindowsChecked[i] < WindowsChecked[j]

\* run has returned: every window with an event has been notified, and no other
AllWindowsNotified ==
    thread.pc = "finished" => CheckedWindows = WindowsSeen

\* C27: for a game whose events arrive with non-decreasing time windows, run notifies
\* the window observers exactly once per distinct window, in ascending order, and the
\* notification for a window comes after every event of that window has been delivered:
\* check_drift is called once per window and no event of a window is ingested after the
\* window's check.
C27_OneCheckPerWindowAfterItsEvents ==
    /\ [] AscendingOncePerWindow
    /\ [] AllWindowsNotified
    /\ [][\A tw \in Windows : Ingests(tw) => tw \notin CheckedWindows]_vars

\* a game of two windows played to its end: three events in window 0, then window 10,
\* one check for each
C27_Witness ==
    /\ thread.pc = "finished"
    /\ EventCount(0) = 3
    /\ EventCount(10) >= 1
    /\ WindowsChecked = <<0, 10>>

(* ---------------- C26 ---------------- *)
\* simulation s emits one of the events by this step
EmitsOneOf(s, events) ==
    /\ Len(channel') = Len(channel) + 1
    /\ channel'[Len(channel')][1] = s
    /\ channel'[Len(channel')][2] \in events

\* the events of the simulations on the channel, the handlers' own left out, come one
\* simulation after the other
NeverInterleaved ==
    \A i, j \in 1..Len(channel) :
        i < j /\ channel[i][1] # 0 /\ channel[j][1] # 0 => channel[i][1] <= channel[j][1]

\* C26: at most one web simulation is active at a time: once sim:start has replaced a
\* running simulation, or sim:stop has stopped it, its thread makes no further
\* ingest or check_drift step and emits no further sim:window, sim:traffic or
\* sim:complete, so that the events of two simulations are never interleaved.
C26_StoppedSimulationIsSilent ==
    /\ [][\A s \in DOMAIN sims :
            sims[s].stop =>
                /\ sims'[s].detector_calls = sims[s].detector_calls
                /\ ~EmitsOneOf(s, {"sim:window", "sim:traffic", "sim:complete"})]_vars
    /\ [] NeverInterleaved

\* the first simulation, replaced while inside a window, sends its sim:window after the
\* second has sent sim:started
C26_ReplacedSimulationStillEmits ==
    /\ Len(sims) = 2
    /\ sims[1].stop
    /\ \E i, j \in 1..Len(channel) :
        i < j /\ channel[i] = <<2, "sim:started">> /\ channel[j] = <<1, "sim:window">>

\* what the stop flag does stop: a stopped simulation never enters another window
C26_StoppedSimulationStartsNoWindow ==
    [][\A s \in DOMAIN sims :
        sims[s].stop /\ sims[s].pc \in {"stop_check", "loop", "sleep", "complete_check"}
            => sims'[s].pc \notin {"ingest", "complete"}]_vars

(* ---------------- C21 ---------------- *)
\* the passes of the backtest loop that built profiles
BuiltPasses == {i \in 1..Len(training) : ~training[i].skipped}

\* the training transactions of archetype A that a curve row of the given key set stands for
MatchingTransactions(t, c, keys) ==
    {r \in t.train_merged :
        /\ ArchetypeOfDate(r.game_date, t.train_games) = c.archetype
        /\ \A k \in keys : r[k] = c[k]}

\* the three curve tables of a pass with the columns that key them
CurveTables(t) ==
    { <<t.profiles.stand_curves, {"stand", "time_window"}>>,
      <<t.profiles.item_curves, {"Item", "time_window"}>>,
      <<t.profiles.stand_item_curves, {"stand", "Item", "time_window"}>> }

\* the quotient of a curve row: summed quantity over the distinct games of the archetype
Quotient(t, c, keys) ==
    Div(SumQty(MatchingTransactions(t, c, keys)), GamesPerArch(c.archetype, t.train_games))

RECURSIVE RowsInOrder(_)
\* the rows of a table, one after the other
RowsInOrder(rows) ==
    IF rows = {} THEN << >>
    ELSE LET r == CHOOSE x \in rows : TRUE IN << r >> \o RowsInOrder(rows \ {r})

\* every curve row is of an archetype with a game, stands for at least one transaction, and
\* holds the quotient rounded to two decimals
CurvesAreRoundedQuotients ==
    \A i \in BuiltPasses : \A table \in CurveTables(training[i]) : \A c \in table[1] :
        /\ GamesPerArch(c.archetype, training[i].train_games) >= 1
        /\ MatchingTransactions(training[i], c, table[2]) # {}
        /\ c.avg_qty = Round2(Quotient(training[i], c, table[2]))

\* every transaction of the training data is in a row of each of the three tables
EveryTransactionHasItsRows ==
    \A i \in BuiltPasses : \A table \in CurveTables(training[i]) :
        \A r \in training[i].train_merged : \E c \in table[1] :
            r \in MatchingTransactions(training[i], c, table[2])

\* the stands, items and windows with no transaction in the training data of a pass
UnsoldStandWindows(t) ==
    {k \in Stands \X {-10, 0, 10} : ~\E r \in t.train_merged : <<r.stand, r.time_window>> = k}
UnsoldItemWindows(t) ==
    {k \in {"Hot Dog", "Fries", "Draught Beer"} \X {-10, 0, 10} :
        ~\E r \in t.train_merged : <<r.Item, r.time_window>> = k}

\* the lookups a detector builds from the forecast of a pass give 0 where nothing was sold
UnsoldLooksUpZero ==
    \A i \in BuiltPasses :
        LET t == training[i]
        IN  /\ \A k \in UnsoldStandWindows(t) :
                  Get(FcStandLookup(RowsInOrder(t.forecast.stand_forecast)), k) = 0
            /\ \A k \in UnsoldItemWindows(t) :
                  Get(FcItemLookup(RowsInOrder(t.forecast.item_forecast)), k) = 0

\* C21: every curve value built by build_profiles_from_data is the summed quantity of the
\* archetype's transactions for the entity and window divided by the number of distinct
\* games of the archetype in the games table, rounded to two decimals, and a lookup for an
\* entity and window with no matching transaction yields 0
C21_CurveIsRoundedQuotient ==
    /\ CurvesAreRoundedQuotients
    /\ EveryTransactionHasItsRows
    /\ UnsoldLooksUpZero

\* C21 as stated: the curve value is the quotient itself
C21_CurveIsExactQuotient ==
    \A i \in BuiltPasses : \A table \in CurveTables(training[i]) : \A c \in table[1] :
        c.avg_qty = Quotient(training[i], c, table[2])

\* a pass built a curve row of an entity that sold in one game of an archetype of three
\* games, its value is the rounded and not the exact quotient, and an entity and window
\* that sold nothing was looked up
C21_Witness ==
    \E i \in BuiltPasses : \E table \in CurveTables(training[i]) : \E c \in table[1] :
        /\ GamesPerArch(c.archetype, training[i].train_games) = 3
        /\ Cardinality({r.game_date : r \in MatchingTransactions(training[i], c, table[2])}) = 1
        /\ c.avg_qty = Round2(Quotient(training[i], c, table[2]))
        /\ c.avg_qty # Quotient(training[i], c, table[2])
        /\ UnsoldStandWindows(training[i]) # {}
        /\ UnsoldItemWindows(training[i]) # {}

(* ---------------- C22 ---------------- *)
\* the loop of run_backtest is over
BacktestDone == position > Len(GameDates)

\* the number of GameResults of a date
ResultsOf(gd) == Cardinality({i \in 1..Len(results) : results[i].game_date = gd})

\* the rows of the other dates
OtherTransactions(gd) == {r \in dataset.merged : r.game_date # gd}
OtherGames(gd) == SelectSeq(dataset.games, LAMBDA g : g.game_date # gd)

\* the passes held the dates out one after the other, each once
EachDateHeldOutOnce ==
    /\ Len(training) = position - 1
    /\ \A i \in 1..Len(training) : training[i].game_date = GameDates[i]
    /\ \A i, j \in 1..Len(GameDates) : GameDates[i] = GameDates[j] => i = j

\* the profiles of a pass come from the rows of all other dates and from none of the date
ProfilesFromOtherDates ==
    \A i \in BuiltPasses :
        LET gd == training[i].game_date
        IN  /\ training[i].train_merged = OtherTransactions(gd)
            /\ training[i].train_games = OtherGames(gd)
            /\ training[i].profiles =
                   build_profiles_from_data(OtherTransactions(gd), OtherGames(gd))
            /\ \A k \in 1..Len(training[i].profiles.games) :
                   training[i].profiles.games[k].game_date # gd

C22_UntrainableDateSkipped ==
    /\ BacktestDone
    /\ Len(dataset.games) = 2
    /\ Len(results) = 1
    /\ \E i \in 1..Len(training) : training[i].skipped

(* ---------------- C23 ---------------- *)
\* the pass of the loop that produced a GameResult
PassOf(res) == CHOOSE i \in BuiltPasses : training[i].game_date = res.game_date

\* the items of the game of a GameResult: those forecast and those sold
ItemsOfGame(res) ==
    {r.item : r \in training[PassOf(res)].forecast.item_forecast}
        \cup {r.Item : r \in GameTxns(res.game_date)}

\* what was prepared and what was sold of an item in the game of a GameResult
PrepOf(res, item) ==
    SumColumn({r \in training[PassOf(res)].forecast.item_forecast : r.item = item}, "prep_qty")
ActualOf(res, item) == SumQty({r \in GameTxns(res.game_date) : r.Item = item})
ItemRow(res, item) == [prep_qty |-> PrepOf(res, item), actual_qty |-> ActualOf(res, item)]

\* waste and stockout of an item are complementary
ItemComplementarity(row) ==
    /\ ItemWaste(row) >= 0
    /\ ItemStockout(row) >= 0
    /\ ~(ItemWaste(row) > 0 /\ ItemStockout(row) > 0)
    /\ ItemWaste(row) - ItemStockout(row) = row.prep_qty - row.actual_qty

\* C23: for every item of a held-out game the waste and the stockout are both >= 0, never
\* both positive, and differ by prep_qty - actual_qty; every GameResult has
\* waste_units - stockout_units = (sum of prep_qty) - (sum of actual_qty) over the game's items
C23_WasteStockoutComplementary ==
    \A k \in 1..Len(results) :
        LET res == results[k]
            fc == training[PassOf(res)].forecast
        IN  /\ \A item \in ItemsOfGame(res) : ItemComplementarity(ItemRow(res, item))
            /\ res.waste_units >= 0
            /\ res.stockout_units >= 0
            /\ res.waste_units - res.stockout_units =
                   SumColumn(fc.item_forecast, "prep_qty") - SumQty(GameTxns(res.game_date))

\* a GameResult of a game with an item prepared above its sales and an item sold above what
\* was prepared
C23_Witness ==
    \E k \in 1..Len(results) :
        /\ results[k].waste_units > 0
        /\ results[k].stockout_units > 0
        /\ \E item \in ItemsOfGame(results[k]) : ItemWaste(ItemRow(results[k], item)) > 0
        /\ \E item \in ItemsOfGame(results[k]) : ItemStockout(ItemRow(results[k], item)) > 0

(* ---------------- C24 ---------------- *)
\* the items of the game of a GameResult with prep_qty at least the quantity sold
CoveredItems(res, items) ==
    {item \in items : PrepOf(res, item) >= ActualOf(res, item)}

\* the items of the game of a GameResult that sold
SoldItems(res) == {item \in ItemsOfGame(res) : ActualOf(res, item) > 0}

\* prep_coverage is the covered fraction of one set of items of the game: of all its items
\* or of those that sold, and 1.0 when that set is empty
IsCoveredFractionOf(res, items) ==
    res.prep_coverage =
        IF items = {} THEN One
        ELSE Div(Cardinality(CoveredItems(res, items)), Cardinality(items))

\* C24: the prep_coverage of every GameResult is the fraction of the game's items whose
\* prep_qty is at least the quantity sold, numerator and denominator over the same set of
\* items, so 0 <= prep_coverage <= 1
C24_CoverageIsAFraction ==
    \A k \in 1..Len(results) :
        /\ ~FLt(results[k].prep_coverage, Zero)
        /\ ~FLt(One, results[k].prep_coverage)
        /\ \/ IsCoveredFractionOf(results[k], ItemsOfGame(results[k]))
           \/ IsCoveredFractionOf(results[k], SoldItems(results[k]))

\* a GameResult with a prep_coverage of 2.0: two items forecast and not sold in the
\* numerator, the one item sold, and not covered, in the denominator
C24_CoverageAboveOne ==
    \E k \in 1..Len(results) :
        /\ results[k].prep_coverage = [n |-> 2, d |-> 1]
        /\ Cardinality(SoldItems(results[k])) = 1
        /\ CoveredItems(results[k], SoldItems(results[k])) = {}
        /\ Cardinality(CoveredItems(results[k], ItemsOfGame(results[k]))) = 2

\* what the code computes: the covered items of all the game's items over the number of
\* items that sold
C24_CoveredOfAllOverSold ==
    \A k \in 1..Len(results) :
        results[k].prep_coverage =
            IF SoldItems(results[k]) = {} THEN One
            ELSE Div(Cardinality(CoveredItems(results[k], ItemsOfGame(results[k]))),
                     Cardinality(SoldItems(results[k])))

(* ---------------- C25 ---------------- *)
\* the game dates without any transaction
EmptyGames == {gd \in GameDatesOf(dataset.games) : GameTxns(gd) = {}}

\* C25: a held-out game without transactions is skipped: no GameResult of its date is
\* added to the results
C25_EmptyGameSkipped ==
    \A k \in 1..Len(results) : results[k].game_date \notin EmptyGames

\* the GameResult of a game without transactions: no sales, a volume error of 0, a prep
\* coverage of 1 and the whole of a non-empty forecast's prep_qty as waste
C25_EmptyGameHasResult ==
    \E k \in 1..Len(results) :
        /\ results[k].game_date \in EmptyGames
        /\ results[k].actual_total = 0
        /\ results[k].forecast_total > 0
        /\ results[k].volume_error = Zero
        /\ results[k].prep_coverage = One
        /\ results[k].waste_units > 0
        /\ results[k].stockout_units = 0

\* the only passes without a GameResult are those with no transaction of another date
C25_SkippedOnlyWithoutTrainingData ==
    \A i \in 1..Len(training) :
        training[i].skipped <=> OtherTransactions(training[i].game_date) = {}
====
